---- MODULE Spec2Model ----
(***************************************************************************)
(* A state-machine model of the background pipeline of src/app.py: the     *)
(* job store (script_generation_jobs, video_generation_jobs,               *)
(* scheduled_posts, video_queue, videos, scripts), the four APScheduler    *)
(* tasks and the worker threads they start.                                *)
(*                                                                         *)
(* CURRENT_TIMESTAMP is the logical clock `now`; a NULL timestamp or id is *)
(* 0.  Every external call (AI provider, FFmpeg, Facebook, the database    *)
(* driver) is an input of the action that makes it, drawn with \E.         *)
(***************************************************************************)
EXTENDS Integers, Sequences, FiniteSets, TLC

\* ------------------------------------------------------------- bounds
MaxTime == 2
MaxJobs == 1
MaxThreads == 2
MaxScripts == 2
MaxEntries == 1
MaxQueued == 2
MaxPending == 4
MaxStarted == 3
MaxCalls == 2
MaxPosts == 2

\* ------------------------------------------------- program constants
NoTime == 0
NoId == 0
NoPath == <<>>
ScriptLimit == 3
VideoLimit == 2
DefaultNumScripts == 0
NoRender == <<>>

VARIABLES
    now,                      \* CURRENT_TIMESTAMP
    script_generation_jobs,   \* table, row id = index
    video_generation_jobs,    \* table, row id = index
    scripts,                  \* table, row id = index
    videos,                   \* table, row id = index
    files,                    \* the video files on disk
    users,                    \* table, row id = user id
    api_keys,                 \* table, one row per user
    scheduled_posts,          \* table, row id = index
    video_queue,              \* table, row id = index
    threads,                  \* every threading.Thread started so far
    fb_calls,                 \* every request sent to the Facebook Graph API
    out,                      \* what the step just taken printed to the
                              \* publishing tasks' log, or answered to a
                              \* post-now request
    render                    \* one call of create_video_ffmpeg: its
                              \* inputs, the FFmpeg commands it ran and
                              \* what it returned

vars == <<now, script_generation_jobs, video_generation_jobs, scripts, videos,
          files, users, api_keys, scheduled_posts, video_queue,
          threads, fb_calls, out, render>>

accountVars == <<users, api_keys>>
postVars == <<scheduled_posts, video_queue>>
mediaVars == <<scripts, videos, files>>


\* ------------------------------------------------------------ helpers
Terminal == {"completed", "failed"}

RECURSIVE SetToSeq(_)
\* A set of row ids as the list of ids in ascending order.
SetToSeq(S) ==
    IF S = {} THEN <<>>
    ELSE LET m == CHOOSE x \in S : \A y \in S : x <= y
         IN <<m>> \o SetToSeq(S \ {m})

Ids(table) == 1..Len(table)

PendingIds(table) == {j \in Ids(table) : table[j].status = "pending"}

\* A dispatcher whose SELECT has lost its LIMIT.
OldestPending_NoLimit(table, limit) == {PendingIds(table)}

\* The result sets `SELECT id FROM <jobs> WHERE status = 'pending'
\* ORDER BY created_at ASC LIMIT n` may return: n rows (or all of them when
\* fewer are pending), none of them newer than a pending row left out.  Rows
\* with equal created_at come in an order SQL leaves open.
OldestPending(table, limit) ==
    LET P == PendingIds(table)
        k == IF Cardinality(P) < limit THEN Cardinality(P) ELSE limit
    IN {S \in SUBSET P :
            /\ Cardinality(S) = k
            /\ \A s \in S : \A r \in P \ S :
                   table[s].created_at <= table[r].created_at}

\* One threading.Thread(target=..., args=(job_id,)).start() per selected row.
StartThreads(kind, S) ==
    threads \o [i \in 1..Cardinality(S) |->
                   [kind |-> kind, job |-> SetToSeq(S)[i], pc |-> "start",
                    video_path |-> NoPath, video_record_id |-> NoId]]

\* ------------------------------------------------------------ time
AdvanceClock ==
    /\ now < MaxTime
    /\ now' = now + 1
    /\ out' = <<>>
    /\ UNCHANGED <<script_generation_jobs, video_generation_jobs, mediaVars,
                   accountVars, postVars, threads, fb_calls, render>>

\* ------------------------------------------------------ user requests
\* /generate-scripts of the logged-in user: INSERT INTO
\* script_generation_jobs (..., 'pending').
generate_scripts(session) ==
    /\ script_generation_jobs' = Append(script_generation_jobs,
           [user_id |-> session, status |-> "pending", created_at |-> now,
            started_at |-> NoTime, completed_at |-> NoTime,
            error_message |-> "", num_scripts |-> DefaultNumScripts])
    /\ UNCHANGED <<now, render, video_generation_jobs, mediaVars, accountVars,
                   postVars, threads, fb_calls, out>>

\* /generate-video/<script_id>: the script must exist; INSERT INTO
\* video_generation_jobs (..., 'pending').
generate_video(session) ==
    /\ \E script_id \in {i \in Ids(scripts) : scripts[i].user_id = session} :
          video_generation_jobs' = Append(video_generation_jobs,
              [user_id |-> session, status |-> "pending",
               script_id |-> script_id,
               created_at |-> now, started_at |-> NoTime,
               completed_at |-> NoTime, error_message |-> "",
               video_path |-> NoPath, facebook_video_id |-> NoId])
    /\ UNCHANGED <<now, render, script_generation_jobs, mediaVars, accountVars,
                   postVars, threads, fb_calls, out>>

\* ------------------------------------------------- dispatcher ticks
\* process_script_generation_queue, every 30 seconds: the SELECT, then one
\* thread per row.  The tick writes nothing to the table.
process_script_generation_queue(maxThreads) ==
    \/ /\ PendingIds(script_generation_jobs) = {}
       /\ UNCHANGED <<now, render,
                      script_generation_jobs, video_generation_jobs,
                      mediaVars, accountVars, postVars, threads, fb_calls,
                      out>>
    \/ /\ PendingIds(script_generation_jobs) # {}
       /\ \E S \in OldestPending(script_generation_jobs, ScriptLimit) :
             /\ Len(threads) + Cardinality(S) <= maxThreads
             /\ threads' = StartThreads("script", S)
       /\ UNCHANGED <<now, render,
                      script_generation_jobs, video_generation_jobs,
                      mediaVars, accountVars, postVars, fb_calls, out>>

\* process_video_generation_queue, every 30 seconds.
process_video_generation_queue(maxThreads) ==
    \/ /\ PendingIds(video_generation_jobs) = {}
       /\ UNCHANGED <<now, render,
                      script_generation_jobs, video_generation_jobs,
                      mediaVars, accountVars, postVars, threads, fb_calls,
                      out>>
    \/ /\ PendingIds(video_generation_jobs) # {}
       /\ \E S \in OldestPending(video_generation_jobs, VideoLimit) :
             /\ Len(threads) + Cardinality(S) <= maxThreads
             /\ threads' = StartThreads("video", S)
       /\ UNCHANGED <<now, render,
                      script_generation_jobs, video_generation_jobs,
                      mediaVars, accountVars, postVars, fb_calls, out>>

\* ------------------------------------------------------ worker threads
\* UPDATE <jobs> SET status = 'processing', started_at = CURRENT_TIMESTAMP
\* WHERE id = ?   (no condition on the current status)
MarkProcessing(table, j) ==
    [table EXCEPT ![j].status = "processing", ![j].started_at = now]

\* UPDATE <jobs> SET status = 'failed', error_message = ?,
\* completed_at = CURRENT_TIMESTAMP WHERE id = ?
MarkFailed(table, j, msg) ==
    [table EXCEPT ![j].status = "failed", ![j].error_message = msg,
                  ![j].completed_at = now]

\* The catch-all of a worker: it opens a new connection and marks the job
\* failed with str(e)[:1000]; when that raises too, `except: pass`.  The
\* transaction of the failed attempt was never committed.
WorkerExcept(table, j, handler_ok) ==
    IF handler_ok THEN MarkFailed(table, j, "exception") ELSE table

SetPc(t, pc) == [threads EXCEPT ![t].pc = pc]

\* The thread's function returns: its locals are gone.
Return(t) ==
    [threads EXCEPT ![t].pc = "done", ![t].video_path = NoPath,
                    ![t].video_record_id = NoId]

\* The thread's function returns from its catch-all handler.
ReturnRaised(t) == [Return(t) EXCEPT ![t].pc = "raised"]

\* process_script_generation_job up to its first commit (lines 521-547).
ScriptJobClaim(t) ==
    /\ threads[t].kind = "script" /\ threads[t].pc = "start"
    /\ LET j == threads[t].job IN
       \/ /\ script_generation_jobs' = MarkProcessing(script_generation_jobs, j)
          /\ threads' = SetPc(t, "run")
       \/ \E handler_ok \in BOOLEAN :
             /\ script_generation_jobs' =
                    WorkerExcept(script_generation_jobs, j, handler_ok)
             /\ threads' = ReturnRaised(t)
    /\ UNCHANGED <<now, render, video_generation_jobs, mediaVars, accountVars,
                   postVars, fb_calls, out>>

\* What the AI provider call hands back: n script records, `valid` of them
\* with all required fields.
ProviderResults ==
    {r \in [n : 0..MaxScripts, valid : 0..MaxScripts] : r.valid <= r.n}

\* INSERT INTO scripts (user_id, ...): `selected` takes its default.
NewScripts(user_id, k) ==
    [i \in 1..k |-> [user_id |-> user_id, selected |-> FALSE]]

\* The rest of process_script_generation_job (lines 549-700): the provider
\* call, the INSERTs, the terminal UPDATE, one commit.
ScriptJobRun(t) ==
    /\ threads[t].kind = "script" /\ threads[t].pc = "run"
    /\ LET j == threads[t].job IN
       \/ \E r \in ProviderResults :
             /\ r.n > 0
             /\ Len(scripts) + r.valid <= MaxScripts
             /\ scripts' = scripts \o
                    NewScripts(script_generation_jobs[j].user_id, r.valid)
             /\ script_generation_jobs' =
                    [script_generation_jobs EXCEPT
                        ![j].status = "completed", ![j].num_scripts = r.n,
                        ![j].completed_at = now]
             /\ threads' = Return(t)
       \/ /\ script_generation_jobs' = MarkFailed(script_generation_jobs, j,
                                           "AI provider returned no scripts")
          /\ threads' = Return(t)
          /\ UNCHANGED scripts
       \/ \E handler_ok \in BOOLEAN :
             /\ script_generation_jobs' =
                    WorkerExcept(script_generation_jobs, j, handler_ok)
             /\ threads' = ReturnRaised(t)
             /\ UNCHANGED scripts
    /\ UNCHANGED <<now, render,
                   video_generation_jobs, videos, files, accountVars,
                   postVars, fb_calls, out>>

\* video_{script_id}_{%Y%m%d_%H%M%S}.mp4 in the owner's directory.
VideoPath(user_id, script_id) == <<user_id, script_id, now>>

\* process_video_generation_job up to the name of the output file (lines
\* 761-802): the first commit, then the path from the script id and the
\* time of day.
VideoJobClaim(t) ==
    /\ threads[t].kind = "video" /\ threads[t].pc = "start"
    /\ LET j == threads[t].job
           job == video_generation_jobs[j]
       IN
       \/ /\ video_generation_jobs' = MarkProcessing(video_generation_jobs, j)
          /\ threads' = [threads EXCEPT
                 ![t].pc = "render",
                 ![t].video_path = VideoPath(job.user_id, job.script_id)]
       \/ \E handler_ok \in BOOLEAN :
             /\ video_generation_jobs' =
                    WorkerExcept(video_generation_jobs, j, handler_ok)
             /\ threads' = ReturnRaised(t)
    /\ UNCHANGED <<now, render, script_generation_jobs, mediaVars, accountVars,
                   postVars, fb_calls, out>>

\* process_video_generation_job after create_video_ffmpeg has returned
\* (lines 828-857 and 955-964): on success the Video row, the quota, the
\* script's flag and the terminal status in one commit; on failure the
\* job is marked failed.
VideoJobAfterRender(t, success) ==
    LET j == threads[t].job
        job == video_generation_jobs[j]
        video_path == threads[t].video_path
    IN  IF success
        THEN /\ files' = files \cup {video_path}
             /\ videos' = Append(videos,
                    [user_id |-> job.user_id, script_id |-> job.script_id,
                     file_path |-> video_path, status |-> "completed",
                     facebook_video_id |-> NoId, posted_at |-> NoTime])
             /\ users' = [users EXCEPT
                             ![job.user_id].videos_generated = @ + 1]
             /\ scripts' = [scripts EXCEPT ![job.script_id].selected = FALSE]
             /\ video_generation_jobs' =
                    [video_generation_jobs EXCEPT
                        ![j].status = "completed",
                        ![j].video_path = video_path,
                        ![j].completed_at = now]
             /\ threads' = [threads EXCEPT ![t].pc = "publish",
                                           ![t].video_record_id = Len(videos')]
        ELSE /\ video_generation_jobs' =
                    MarkFailed(video_generation_jobs, j,
                               "FFmpeg video generation failed")
             /\ threads' = Return(t)
             /\ UNCHANGED <<scripts, videos, files, users>>

\* A statement of the render step raises: the catch-all at line 968.
VideoJobRenderRaised(t) ==
    \E handler_ok \in BOOLEAN :
        /\ video_generation_jobs' =
               WorkerExcept(video_generation_jobs, threads[t].job, handler_ok)
        /\ threads' = ReturnRaised(t)
        /\ UNCHANGED <<scripts, videos, files, users>>

\* process_video_generation_job, lines 804-857 and 955-984: the render,
\* whatever it returns, then the rows.
VideoJobRender(t) ==
    /\ threads[t].kind = "video" /\ threads[t].pc = "render"
    /\ \/ \E success \in BOOLEAN : VideoJobAfterRender(t, success)
       \/ VideoJobRenderRaised(t)
    /\ UNCHANGED <<now, render, script_generation_jobs, api_keys, postVars,
                   fb_calls, out>>

\* A caller that looks at the page token alone.
HasFacebook_TokenOnly(user_id) == api_keys[user_id].facebook_page_token

\* <row>['facebook_page_token'] and <row>['facebook_page_id']
HasFacebook(user_id) ==
    api_keys[user_id].facebook_page_token /\ api_keys[user_id].facebook_page_id

\* A request POST /{page_id}/videos with the file at file_path, which is on
\* disk or not; the id Facebook answers with, when it answers 200, is new.
UploadCall(by, row, file_path, ok, calls) ==
    [api |-> "videos", by |-> by, row |-> row,
     file_exists |-> file_path \in files,
     id |-> IF ok THEN Len(calls) + 1 ELSE NoId]

\* A worker whose publish section sits under the catch-all: an upload
\* that is refused marks the job failed.
VideoJobPublish_FailsJob(t) ==
    /\ threads[t].kind = "video" /\ threads[t].pc = "publish"
    /\ \E ok \in BOOLEAN :
          LET j == threads[t].job
              call == UploadCall("video_job", j, threads[t].video_path,
                                 ok, fb_calls)
          IN  /\ fb_calls' = Append(fb_calls, call)
              /\ video_generation_jobs' =
                    IF ok THEN [video_generation_jobs EXCEPT
                                   ![j].facebook_video_id = call.id]
                    ELSE MarkFailed(video_generation_jobs, j,
                                    "Facebook upload failed")
    /\ out' = <<>>
    /\ threads' = Return(t)
    /\ UNCHANGED <<now, render, script_generation_jobs, mediaVars,
                   accountVars, postVars>>

\* process_video_generation_job, lines 859-953, after the job is committed
\* as completed.  The row carries no facebook_token_expires, so the upload
\* is always tried when the credentials are there.  The story share is
\* called with two arguments for three parameters: the TypeError is caught
\* at line 930 and no request is sent.  The id is then written to the
\* video and the job (lines 935-946); when that raises, a warning is
\* printed (line 948).
VideoJobPublish(t) ==
    /\ threads[t].kind = "video" /\ threads[t].pc = "publish"
    /\ LET j == threads[t].job
           job == video_generation_jobs[j]
           v == threads[t].video_record_id
       IN
       \/ /\ ~HasFacebook(job.user_id)
          /\ out' = <<>>
          /\ UNCHANGED <<video_generation_jobs, videos, fb_calls>>
       \/ /\ HasFacebook(job.user_id)
          /\ \E ok \in BOOLEAN, db_ok \in BOOLEAN :
                LET call == UploadCall("video_job", j, threads[t].video_path,
                                       ok, fb_calls) IN
                /\ fb_calls' = Append(fb_calls, call)
                /\ IF ok /\ db_ok
                   THEN /\ videos' = [videos EXCEPT
                               ![v].facebook_video_id = call.id,
                               ![v].posted_at = now]
                        /\ video_generation_jobs' =
                               [video_generation_jobs EXCEPT
                                   ![j].facebook_video_id = call.id]
                   ELSE UNCHANGED <<video_generation_jobs, videos>>
                /\ out' = IF ok /\ ~db_ok
                          THEN <<[task |-> "video_job", row |-> j,
                                  msg |-> "Could not update Facebook ID"]>>
                          ELSE <<>>
    /\ threads' = Return(t)
    /\ UNCHANGED <<now, render,
                   script_generation_jobs, scripts, files, accountVars,
                   postVars>>

\* ------------------------------------------------------- publishing
\* DELETE leaves the row's id unused for ever (AUTOINCREMENT); the model
\* keeps the index and marks the row.
Live(table) == {i \in Ids(table) : table[i].status # "deleted"}

\* JOIN videos v ON <row>.video_id = v.id, as the two SELECTs of the
\* publishing tasks do.  The joins to scripts, api_keys and users always
\* find their row here: signup creates the api_keys row, and no script is
\* deleted in this model.
Joined(video_id) == video_id \in Live(videos)

\* What the outside world does during one publish attempt: the upload is
\* answered 200 with an id or not, the story share likewise, and a
\* statement of the attempt raises before anything was sent ("before"),
\* after the requests ("after"), or not at all.
Env ==
    {e \in [upload : BOOLEAN, story : BOOLEAN,
            exc : {"none", "before", "after"}] :
        /\ e.exc = "before" => e.upload /\ e.story
        /\ ~e.upload => ~e.story}

StoryCall(by, row, ok, calls) ==
    [api |-> "video_stories", by |-> by, row |-> row,
     id |-> IF ok THEN Len(calls) + 1 ELSE NoId]

\* A caller that has lost its file check.
FileExists_Unchecked(file_path) == TRUE

\* os.path.exists(<row>['file_path'])
FileExists(file_path) == file_path \in files

\* The body both publishing tasks run for one row (post_scheduled_videos
\* lines 140-216, process_video_queue lines 266-351): the file check, the
\* credentials check, post_video_to_facebook, share_reel_to_story.  `calls`
\* is the request log so far.  The result says what to write to the row.
PublishAttempt(by, id, row, env, calls) ==
    LET file_path == videos[row.video_id].file_path
        upload == UploadCall(by, id, file_path, env.upload, calls)
        uploaded == Append(calls, upload)
        share == api_keys[row.user_id].auto_share_to_story
        story == StoryCall(by, id, env.story, uploaded)
        failed(msg, log, raised) ==
            [status |-> "failed", error_message |-> msg,
             facebook_video_id |-> NoId, story_id |-> NoId, calls |-> log,
             raised |-> raised]
    IN  IF env.exc = "before" THEN failed("exception", calls, TRUE)
        ELSE IF ~FileExists(file_path)
        THEN failed("Video file not found", calls, FALSE)
        ELSE IF ~HasFacebook(row.user_id)
        THEN failed("Facebook credentials not configured", calls, FALSE)
        ELSE IF ~env.upload
        THEN IF env.exc = "after"
             THEN failed("exception", uploaded, TRUE)
             ELSE failed("Facebook upload failed", uploaded, FALSE)
        ELSE LET log == IF share THEN Append(uploaded, story) ELSE uploaded
             IN  IF env.exc = "after" THEN failed("exception", log, TRUE)
                 ELSE [status |-> "posted", error_message |-> "",
                       facebook_video_id |-> upload.id,
                       story_id |-> IF share THEN story.id ELSE NoId,
                       calls |-> log, raised |-> FALSE]

\* A task that reports the publish as failed when no story id came back.
WriteAttempt_StoryRequired(table, id, a) ==
    IF a.status = "failed" \/ a.story_id = NoId
    THEN [table EXCEPT ![id].status = "failed",
                       ![id].error_message = "Story share failed",
                       ![id].retry_count = @ + 1]
    ELSE [table EXCEPT ![id].status = "posted", ![id].posted_at = now,
                       ![id].facebook_video_id = a.facebook_video_id,
                       ![id].story_id = a.story_id]

\* UPDATE <table> SET status = 'failed', error_message = ?,
\* retry_count = retry_count + 1 WHERE id = ?
\* UPDATE <table> SET status = 'posted', posted_at = CURRENT_TIMESTAMP,
\* facebook_video_id = ?, story_id = ? WHERE id = ?
\* A row that was deleted in the meantime is not matched by the WHERE.
WriteAttempt(table, id, a) ==
    IF table[id].status = "deleted" THEN table
    ELSE IF a.status = "failed"
    THEN [table EXCEPT ![id].status = "failed",
                       ![id].error_message = a.error_message,
                       ![id].retry_count = @ + 1]
    ELSE [table EXCEPT ![id].status = "posted", ![id].posted_at = now,
                       ![id].facebook_video_id = a.facebook_video_id,
                       ![id].story_id = a.story_id]

\* UPDATE videos SET facebook_video_id = ?, posted_at = CURRENT_TIMESTAMP
WriteVideo(table, video_id, a) ==
    IF a.status = "posted"
    THEN [table EXCEPT ![video_id].facebook_video_id = a.facebook_video_id,
                       ![video_id].posted_at = now]
    ELSE table

Line(task, row, msg) == [task |-> task, row |-> row, msg |-> msg]

\* A sweep whose SELECT has lost its condition on scheduled_time.
DuePosts_NoTimeFilter ==
    {p \in Ids(scheduled_posts) :
        /\ scheduled_posts[p].status = "pending"
        /\ Joined(scheduled_posts[p].video_id)}

\* A sweep that takes failed posts up again.
DuePosts_RetryFailed ==
    {p \in Ids(scheduled_posts) :
        /\ scheduled_posts[p].status \in {"pending", "failed"}
        /\ scheduled_posts[p].scheduled_time <= now
        /\ Joined(scheduled_posts[p].video_id)}

\* The rows the sweep's SELECT returns (lines 123-135).
DuePosts ==
    {p \in Ids(scheduled_posts) :
        /\ scheduled_posts[p].status = "pending"
        /\ scheduled_posts[p].scheduled_time <= now
        /\ Joined(scheduled_posts[p].video_id)}

\* A sweep whose SELECT has lost its ORDER BY: the rows in any order.
InTimeOrder_AnyOrder(S) ==
    {o \in [1..Cardinality(S) -> S] :
        \A i, k \in DOMAIN o : i # k => o[i] # o[k]}

\* ORDER BY sp.scheduled_time ASC: the orders SQL may return the rows in.
InTimeOrder(S) ==
    {o \in [1..Cardinality(S) -> S] :
        /\ \A i, k \in DOMAIN o : i # k => o[i] # o[k]
        /\ \A i, k \in DOMAIN o :
              i < k => scheduled_posts[o[i]].scheduled_time
                           <= scheduled_posts[o[k]].scheduled_time}

RECURSIVE SweepRows(_, _, _)
\* The loop of post_scheduled_videos (lines 137-225) over the rows still to
\* do; a row whose attempt raises is marked failed by the handler at line
\* 218.  st is the connection's view: the two tables, the requests sent and
\* the lines printed.
SweepRows(st, todo, env) ==
    IF todo = <<>> THEN st
    ELSE LET p == Head(todo)
             a == PublishAttempt("scheduled", p, scheduled_posts[p], env[p],
                                 st.calls)
         IN  SweepRows(
                 [posts |-> WriteAttempt(st.posts, p, a),
                  videos |-> WriteVideo(st.videos,
                                        scheduled_posts[p].video_id, a),
                  calls |-> a.calls,
                  lines |-> Append(st.lines,
                               Line("scheduled", p,
                                    IF a.status = "posted" THEN "OK Posted"
                                    ELSE a.error_message))],
                 Tail(todo), env)

\* post_scheduled_videos, every 60 seconds: the whole due-set in one
\* transaction.  When the commit at line 227 raises, the outer handler
\* prints and nothing is written; the requests have been sent.  E is what
\* the outside world may do during an attempt, commits whether the commit
\* may go through or raise.
Sweep(E, commits) ==
    \E order \in InTimeOrder(DuePosts), env \in [DuePosts -> E],
       commit_ok \in commits :
        LET st == SweepRows([posts |-> scheduled_posts, videos |-> videos,
                             calls |-> fb_calls, lines |-> <<>>],
                            order, env)
        IN  /\ fb_calls' = st.calls
            /\ IF commit_ok
               THEN /\ scheduled_posts' = st.posts
                    /\ videos' = st.videos
                    /\ out' = st.lines
               ELSE /\ UNCHANGED <<scheduled_posts, videos>>
                    /\ out' = <<Line("scheduled", NoId, "SCHEDULER ERROR")>>
            /\ UNCHANGED <<now, render,
                           script_generation_jobs, video_generation_jobs,
                           scripts, files, accountVars, video_queue, threads>>

post_scheduled_videos == Sweep(Env, BOOLEAN)

\* A queue task whose SELECT has lost its WHERE q.status = 'queued'.
QueuedEntries_NoStatusFilter ==
    {q \in Ids(video_queue) : Joined(video_queue[q].video_id)}

\* The rows the queue task's SELECT chooses from (lines 245-257).
QueuedEntries ==
    {q \in Ids(video_queue) :
        video_queue[q].status = "queued" /\ Joined(video_queue[q].video_id)}

\* ORDER BY q.queued_at ASC LIMIT 1: the rows fetchone() may return.
FirstQueued ==
    {q \in QueuedEntries :
        \A r \in QueuedEntries :
            video_queue[q].queued_at <= video_queue[r].queued_at}

\* process_video_queue, every 3 hours.  An exception of the attempt is
\* caught by the outer handler alone (line 356), which prints and writes
\* nothing.
process_video_queue ==
    \/ /\ QueuedEntries = {}
       /\ out' = <<Line("queue", NoId, "No videos in queue")>>
       /\ UNCHANGED <<now, render,
                      script_generation_jobs, video_generation_jobs,
                      mediaVars, accountVars, postVars, threads, fb_calls>>
    \/ \E q \in FirstQueued, env \in Env :
          LET a == PublishAttempt("queue", q, video_queue[q], env, fb_calls)
          IN  /\ fb_calls' = a.calls
              /\ IF a.raised
                 THEN /\ UNCHANGED <<video_queue, videos>>
                      /\ out' = <<Line("queue", q, "QUEUE ERROR")>>
                 ELSE /\ video_queue' = WriteAttempt(video_queue, q, a)
                      /\ videos' = WriteVideo(videos, video_queue[q].video_id,
                                              a)
                      /\ out' = <<Line("queue", q,
                                       IF a.status = "posted" THEN "OK Posted"
                                       ELSE a.error_message)>>
              /\ UNCHANGED <<now, render, script_generation_jobs,
                             video_generation_jobs, scripts, files,
                             accountVars, scheduled_posts, threads>>

\* ---------------------------------------- requests of the publishing side
\* The JSON body of POST /schedule-posts: the video ids as sent (they are
\* not checked against the videos table), the start time, the interval.
NewPosts(session, video_ids, start_time, interval_hours) ==
    [i \in 1..Len(video_ids) |->
        [user_id |-> session, video_id |-> video_ids[i],
         scheduled_time |-> start_time + (i - 1) * interval_hours,
         status |-> "pending", posted_at |-> NoTime,
         facebook_video_id |-> NoId, story_id |-> NoId,
         error_message |-> "", retry_count |-> 0]]

\* schedule_posts (lines 3257-3300): one INSERT per video id, each
\* interval_hours after the one before.
schedule_posts(session, video_ids, start_time, interval_hours) ==
    /\ video_ids # <<>>
    /\ scheduled_posts' = scheduled_posts \o
           NewPosts(session, video_ids, start_time, interval_hours)
    /\ out' = <<>>
    /\ UNCHANGED <<now, render, script_generation_jobs, video_generation_jobs,
                   mediaVars, accountVars, video_queue, threads, fb_calls>>

RECURSIVE AddEach(_, _, _)
\* The loop of add_to_queue (lines 3420-3438): a video of the session's user
\* that has no queued entry of that user yet gets one.
AddEach(queue, session, video_ids) ==
    IF video_ids = <<>> THEN queue
    ELSE LET v == Head(video_ids)
             owned == v \in Live(videos) /\ videos[v].user_id = session
             existing == \E q \in Ids(queue) :
                            /\ queue[q].video_id = v
                            /\ queue[q].user_id = session
                            /\ queue[q].status = "queued"
         IN  AddEach(IF owned /\ ~existing
                     THEN Append(queue,
                              [user_id |-> session, video_id |-> v,
                               queued_at |-> now, status |-> "queued",
                               posted_at |-> NoTime,
                               facebook_video_id |-> NoId,
                               story_id |-> NoId, error_message |-> "",
                               retry_count |-> 0])
                     ELSE queue,
                     session, Tail(video_ids))

add_to_queue(session, video_ids) ==
    /\ video_ids # <<>>
    /\ video_queue' = AddEach(video_queue, session, video_ids)
    /\ out' = <<>>
    /\ UNCHANGED <<now, render, script_generation_jobs, video_generation_jobs,
                   mediaVars, accountVars, scheduled_posts, threads,
                   fb_calls>>

\* post_video_now (lines 3487-3589), POST /post-now/<video_id>: the checks,
\* the mark 'posting', the upload, the optional story, the answer.  When a
\* statement raises, the handler resets the status to 'completed' if it
\* can.
post_video_now(session, video_id) ==
    \E env \in Env :
    \E handler_ok \in IF env.exc = "none" THEN {TRUE} ELSE BOOLEAN :
        LET found == /\ video_id \in Live(videos)
                     /\ videos[video_id].user_id = session
            video == videos[video_id]
            upload == UploadCall("post_now", video_id, video.file_path,
                                 env.upload, fb_calls)
            uploaded == Append(fb_calls, upload)
            share == api_keys[video.user_id].auto_share_to_story
            log == IF env.upload /\ share
                   THEN Append(uploaded,
                               StoryCall("post_now", video_id, env.story,
                                         uploaded))
                   ELSE uploaded
            answer(msg) == <<Line("post_now", video_id, msg)>>
            refuse(msg) == /\ out' = answer(msg)
                           /\ UNCHANGED <<videos, fb_calls>>
            reset(table) ==
                IF handler_ok /\ video_id \in Live(videos)
                THEN [table EXCEPT ![video_id].status = "completed"]
                ELSE table
            posting == [videos EXCEPT ![video_id].status = "posting"]
        IN  /\ video_id \in Ids(videos)
            /\ IF env.exc = "before"
               THEN /\ videos' = reset(videos)
                    /\ fb_calls' = fb_calls
                    /\ out' = answer("An unexpected error occurred")
               ELSE IF ~found THEN refuse("Video not found")
               ELSE IF ~FileExists(video.file_path)
               THEN refuse("Video file not found on disk")
               ELSE IF ~HasFacebook(video.user_id)
               THEN refuse("Facebook credentials not configured")
               ELSE IF video.facebook_video_id # NoId
               THEN refuse("Video already posted to Facebook")
               ELSE IF env.exc = "after"
               THEN /\ videos' = reset(posting)
                    /\ fb_calls' = log
                    /\ out' = answer("An unexpected error occurred")
               ELSE IF ~env.upload
               THEN /\ videos' = [videos EXCEPT
                                     ![video_id].status = "completed"]
                    /\ fb_calls' = log
                    /\ out' = answer("Facebook upload failed")
               ELSE /\ videos' = [videos EXCEPT
                                     ![video_id].facebook_video_id = upload.id,
                                     ![video_id].posted_at = now,
                                     ![video_id].status = "posted"]
                    /\ fb_calls' = log
                    /\ out' = answer("Posted to Facebook successfully!")
            /\ UNCHANGED <<now, render,
                           script_generation_jobs, video_generation_jobs,
                           scripts, files, accountVars, postVars, threads>>

\* delete_video (lines 1707-1745) on the SQLite database, which does not
\* enforce the declared foreign keys (get_db sets no PRAGMA): the file, the
\* row, the quota refund.  Rows of scheduled_posts and video_queue that
\* name the video stay.
delete_video(session, video_id) ==
    /\ video_id \in Live(videos)
    /\ videos[video_id].user_id = session
    /\ files' = files \ {videos[video_id].file_path}
    /\ videos' = [videos EXCEPT ![video_id].status = "deleted"]
    /\ users' = [users EXCEPT ![session].videos_generated =
                                  IF @ > 0 THEN @ - 1 ELSE @]
    /\ out' = <<>>
    /\ UNCHANGED <<now, render, script_generation_jobs, video_generation_jobs,
                   scripts, api_keys, postVars, threads, fb_calls>>

\* ------------------------------------------------------- the renderer
\* sections = ['hook', 'fact1', 'fact2', 'fact3', 'fact4', 'payoff']
sections == <<"hook", "fact1", "fact2", "fact3", "fact4", "payoff">>

SectionNames == {sections[i] : i \in DOMAIN sections}

\* What the script dict can hold for a section: no value (the key is
\* missing, or holds None), the empty string, white space only, or words.
Missing == "None"
Texts == {Missing, "", " ", "text"}

\* How a run of FFmpeg for one slide ends: return code 0, another return
\* code, or subprocess.TimeoutExpired after 120 seconds.
SlideRuns == {"ok", "fail", "timeout"}

\* script.get(section, '')
ScriptGet(script, section) ==
    IF script[section] = Missing THEN "" ELSE script[section]

\* `not text` for what ScriptGet returns: only the empty string is false.
NotText(text) == text = ""

\* os.path.join(temp_dir, f'slide_{idx}_{section}.mp4'), idx from 0
SlidePath(idx, section) == <<idx - 1, section>>

\* A loop that puts each new clip in front of the ones before.
AppendSlide_InFront(slide_videos, path) == <<path>> \o slide_videos

\* slide_videos.append(slide_video_path)
AppendSlide(slide_videos, path) == Append(slide_videos, path)

\* Durations are counted in fourteenths of a second, the unit in which
\* word_count / 3.5, 2.5 and 6.0 are all whole numbers.
UnitsPerSecond == 14
Padding == UnitsPerSecond
MinDuration == (5 * UnitsPerSecond) \div 2
MaxDuration == 6 * UnitsPerSecond

\* An estimate without the floor of 2.5 seconds or the ceiling of 6.
EstimatedDuration_Unclamped(word_count) ==
    (2 * UnitsPerSecond * word_count) \div 7

\* min(max(word_count / 3.5, 2.5), 6.0), lines 3728-3730
EstimatedDuration(word_count) ==
    LET by_words == (2 * UnitsPerSecond * word_count) \div 7
        slide_duration == IF by_words > MinDuration THEN by_words
                          ELSE MinDuration
    IN  IF slide_duration < MaxDuration THEN slide_duration ELSE MaxDuration

\* len(text.split()) for the texts of the model
WordCount(text) == IF text = "text" THEN 1 ELSE 0

\* d.get(key, default) of a dict
DictGet(d, key, default) == IF key \in DOMAIN d THEN d[key] ELSE default

\* The api_keys dict that process_video_generation_job builds from the
\* joined row (lines 816-821).  The SELECT of lines 765-773 does not read
\* the column elevenlabs_enabled.
JobApiKeys(row) ==
    [elevenlabs_api_key |-> row.elevenlabs_api_key,
     facebook_page_token |-> row.facebook_page_token,
     facebook_page_id |-> row.facebook_page_id,
     auto_share_to_story |-> row.auto_share_to_story]

\* section_durations when there is no narration (None)
NoDurations == [x \in {} |-> <<>>]

\* base_path.format(section), the audio file of one section
AudioPath(section) == <<"audio", section>>
NoAudio == <<>>

RECURSIVE TotalDuration(_, _)
\* sum(info['duration'] for info in section_audios.values())
TotalDuration(idx, section_audios) ==
    IF idx > Len(sections) THEN 0
    ELSE (IF sections[idx] \in DOMAIN section_audios
          THEN section_audios[sections[idx]].duration ELSE 0)
         + TotalDuration(idx + 1, section_audios)

\* generate_voiceover (lines 3920-4081).  One request to ElevenLabs for
\* every section with text, in order; tts.ok[x] says that the request for
\* x returned 200 and ffprobe read the length of its audio, tts.duration[x]
\* is that length, and tts.raises says that a later statement (the
\* concatenation of the audio, 30 seconds at most) raised.  The result is
\* None when no section has audio and after an exception.
generate_voiceover(script, tts) ==
    LET spoken == SelectSeq(sections,
                      LAMBDA x : ~NotText(ScriptGet(script, x)))
        made == {spoken[i] : i \in DOMAIN spoken}
        with_audio == {x \in made : tts.ok[x]}
        section_audios ==
            [x \in with_audio |->
                [audio_file |-> AudioPath(x), duration |-> tts.duration[x]]]
        calls == [i \in DOMAIN spoken |->
                     [cmd |-> "tts", section |-> spoken[i]]]
    IN  [calls |-> calls,
         section_durations |->
            IF with_audio = {} \/ tts.raises THEN NoDurations
            ELSE [x \in with_audio \cup {"_total"} |->
                     IF x = "_total"
                     THEN [audio_file |-> AudioPath(x),
                           duration |-> TotalDuration(1, section_audios)]
                     ELSE section_audios[x]]]

\* api_keys.get('elevenlabs_api_key') and
\* api_keys.get('elevenlabs_enabled', True), line 3635
VoiceoverWanted(keys) ==
    /\ DictGet(keys, "elevenlabs_api_key", "") # ""
    /\ DictGet(keys, "elevenlabs_enabled", TRUE)

\* The voiceover step of create_video_ffmpeg (lines 3632-3650).
Voiceover(script, keys, tts) ==
    IF VoiceoverWanted(keys) THEN generate_voiceover(script, tts)
    ELSE [calls |-> <<>>, section_durations |-> NoDurations]

\* The length of one slide (lines 3722-3734): the narration and one
\* second when the section has narration, the estimate from the number
\* of words otherwise.
SlideDuration(section_durations, section, word_count) ==
    IF section \in DOMAIN section_durations
    THEN section_durations[section].duration + Padding
    ELSE EstimatedDuration(word_count)

\* The audio input of one slide (lines 3725 and 3733)
SlideAudio(section_durations, section) ==
    IF section \in DOMAIN section_durations
    THEN section_durations[section].audio_file
    ELSE NoAudio

\* os.path.join(temp_dir, f'slide_{idx}_{section}.ass'), idx from 0
AssPath(idx, section) == <<idx - 1, section, "ass">>

RECURSIVE RenderSlides(_, _, _, _, _)
\* The loop over the sections (lines 3710-3845) from index idx on.  A
\* section without text is skipped; for every other the caption file is
\* written and FFmpeg runs; a clip is kept when FFmpeg returned 0, and
\* the caption file is removed after the run.  The handler of
\* TimeoutExpired reads `duration`, a name that is not defined (line
\* 3824): the NameError leaves the loop.  st.temp is the content of
\* temp_dir; a run that returns an error code is taken to leave no clip.
RenderSlides(idx, script, section_durations, runs, st) ==
    IF idx > Len(sections) THEN st
    ELSE LET section == sections[idx]
             text == ScriptGet(script, section)
             ran == [st EXCEPT !.calls =
                        Append(@, [cmd |-> "slide", section |-> section,
                                   duration |-> SlideDuration(
                                       section_durations, section,
                                       WordCount(text)),
                                   audio |-> SlideAudio(
                                       section_durations, section)])]
         IN  IF NotText(text)
             THEN RenderSlides(idx + 1, script, section_durations, runs, st)
             ELSE IF runs[section] = "ok"
             THEN RenderSlides(idx + 1, script, section_durations, runs,
                      [ran EXCEPT
                          !.slide_videos =
                              AppendSlide(@, SlidePath(idx, section)),
                          !.temp = @ \cup {SlidePath(idx, section)}])
             ELSE IF runs[section] = "fail"
             THEN RenderSlides(idx + 1, script, section_durations, runs, ran)
             ELSE [ran EXCEPT !.raised = TRUE,
                              !.temp = @ \cup {AssPath(idx, section)}]

\* The voiceover step and then the slides.
VoicedSlides(script, keys, tts, runs) ==
    LET voice == Voiceover(script, keys, tts)
    IN  RenderSlides(1, script, voice.section_durations, runs,
            [slide_videos |-> <<>>, calls |-> voice.calls, raised |-> FALSE,
             temp |-> {}])

\* temp_dir, temp_slides/<uuid>, as the call leaves it: removed, or there
\* with the files listed.
RemovedDir == [exists |-> FALSE, files |-> {}]
KeptDir(in_dir) == [exists |-> TRUE, files |-> in_dir]

\* os.path.join(temp_dir, 'concat_list.txt')
ConcatListPath == <<"concat_list.txt">>

\* The outer handlers (lines 3896-3918): shutil.rmtree(temp_dir), False.
GiveUp(st) ==
    [calls |-> st.calls, result |-> FALSE, temp_dir |-> RemovedDir]

\* Lines 3844-3846: `return False` when slide_videos is empty.
NoSlides(st) ==
    [calls |-> st.calls, result |-> FALSE, temp_dir |-> KeptDir(st.temp)]

\* Lines 3848-3894: the list file, the concat run, then the list file and
\* the clips are removed and os.rmdir removes temp_dir when it is empty;
\* after a failed concat run shutil.rmtree removes what is left.
Concatenate(st, concat_ok) ==
    LET listed == {st.slide_videos[i] : i \in DOMAIN st.slide_videos}
        left == (st.temp \cup {ConcatListPath})
                    \ ({ConcatListPath} \cup listed)
    IN  [calls |-> Append(st.calls, [cmd |-> "concat",
                                     list |-> st.slide_videos]),
         result |-> concat_ok,
         temp_dir |-> IF left = {} \/ ~concat_ok THEN RemovedDir
                      ELSE KeptDir(left)]

\* A renderer that gives up on the whole video when one slide failed.
create_video_ffmpeg_AllOrNothing(script, keys, tts, runs, concat_ok) ==
    LET st == VoicedSlides(script, keys, tts, runs)
    IN  IF \E x \in SectionNames : runs[x] # "ok" THEN GiveUp(st)
        ELSE Concatenate(st, concat_ok)

\* A renderer without the check of lines 3844-3846.
create_video_ffmpeg_ConcatAlways(script, keys, tts, runs, concat_ok) ==
    LET st == VoicedSlides(script, keys, tts, runs)
    IN  IF st.raised THEN GiveUp(st) ELSE Concatenate(st, concat_ok)

\* A renderer that gives the video up when the narration gave nothing.
create_video_ffmpeg_NeedsVoice(script, keys, tts, runs, concat_ok) ==
    LET voice == Voiceover(script, keys, tts)
        st == VoicedSlides(script, keys, tts, runs)
    IN  IF st.raised
           \/ (voice.calls # <<>> /\ voice.section_durations = NoDurations)
        THEN GiveUp(st)
        ELSE IF st.slide_videos = <<>> THEN NoSlides(st)
        ELSE Concatenate(st, concat_ok)

\* create_video_ffmpeg (lines 3595-3918): the voiceover, the slides, then
\* the concatenation of the clips listed in concat_list.txt.  It returns
\* False when an exception reached its outer handler, when no slide was
\* made, and when the concatenation failed.
create_video_ffmpeg(script, keys, tts, runs, concat_ok) ==
    LET st == VoicedSlides(script, keys, tts, runs)
    IN  IF st.raised THEN GiveUp(st)
        ELSE IF st.slide_videos = <<>> THEN NoSlides(st)
        ELSE Concatenate(st, concat_ok)

\* The api_keys row of an owner who stored no ElevenLabs key and has no
\* Facebook page, and a provider that is never asked.
NoVoiceKeys ==
    [elevenlabs_api_key |-> "", elevenlabs_enabled |-> TRUE,
     facebook_page_token |-> FALSE, facebook_page_id |-> FALSE,
     auto_share_to_story |-> TRUE]
NoTts ==
    [ok |-> [x \in SectionNames |-> FALSE],
     duration |-> [x \in SectionNames |-> 0], raises |-> FALSE]

\* A video worker calls create_video_ffmpeg (line 826).
RenderVideo ==
    /\ ~render.returned
    /\ LET r == create_video_ffmpeg(render.script,
                                    JobApiKeys(render.keys), render.tts,
                                    render.runs, render.concat_ok)
       IN  render' = [render EXCEPT !.calls = r.calls, !.result = r.result,
                                    !.temp_dir = r.temp_dir,
                                    !.returned = TRUE]
    /\ UNCHANGED <<now, script_generation_jobs, video_generation_jobs,
                   mediaVars, accountVars, postVars, threads, fb_calls, out>>

\* The same step with the call of create_video_ffmpeg (line 826) on the
\* script and the FFmpeg runs recorded in `render`.
VideoJobRenderScript(t) ==
    /\ threads[t].kind = "video" /\ threads[t].pc = "render"
    /\ ~render.returned
    /\ LET r == create_video_ffmpeg(render.script,
                                    JobApiKeys(render.keys), render.tts,
                                    render.runs, render.concat_ok)
       IN  /\ render' = [render EXCEPT !.calls = r.calls,
                                       !.result = r.result,
                                       !.temp_dir = r.temp_dir,
                                       !.returned = TRUE]
           /\ \/ VideoJobAfterRender(t, r.result)
              \/ VideoJobRenderRaised(t)
    /\ UNCHANGED <<now, script_generation_jobs, api_keys, postVars,
                   fb_calls, out>>

\* ------------------------------------------------ the generation pipeline
Users == {1, 2}

\* The database of an owner who has pasted and selected one script and has
\* requested nothing yet; the Facebook page is connected or not.
InitGen ==
    /\ now = 1
    /\ render = NoRender
    /\ script_generation_jobs = <<>>
    /\ video_generation_jobs = <<>>
    /\ scripts = <<[user_id |-> 1, selected |-> TRUE]>>
    /\ videos = <<>>
    /\ files = {}
    /\ users = [u \in Users |-> [videos_generated |-> 0]]
    /\ \E fb \in BOOLEAN :
          api_keys = [u \in Users |->
                         [facebook_page_token |-> fb, facebook_page_id |-> fb,
                          auto_share_to_story |-> TRUE]]
    /\ scheduled_posts = <<>>
    /\ video_queue = <<>>
    /\ threads = <<>>
    /\ fb_calls = <<>>
    /\ out = <<>>

JobRows == Len(script_generation_jobs) + Len(video_generation_jobs)

NextGen ==
    \/ AdvanceClock
    \/ JobRows < MaxJobs /\ generate_scripts(1)
    \/ JobRows < MaxJobs /\ generate_video(1)
    \/ process_script_generation_queue(MaxThreads)
    \/ process_video_generation_queue(MaxThreads)
    \/ \E t \in 1..Len(threads) :
          \/ ScriptJobClaim(t)
          \/ ScriptJobRun(t)
          \/ VideoJobClaim(t)
          \/ VideoJobRender(t)
          \/ VideoJobPublish(t)

SpecGen == InitGen /\ [][NextGen]_vars

\* The statements a started worker thread still has to run.
WorkerStep(t) ==
    /\ t \in DOMAIN threads
    /\ \/ ScriptJobClaim(t)
       \/ ScriptJobRun(t)
       \/ VideoJobClaim(t)
       \/ VideoJobRender(t)
       \/ VideoJobPublish(t)

\* Every call a worker makes returns or raises (each has a timeout, or is
\* taken to have one), so a started thread runs on until it returns.
SpecGenFair ==
    SpecGen /\ \A t \in 1..MaxThreads : WF_vars(WorkerStep(t))

\* ------------------------------------------------ the publishing side
\* What an owner's api_keys row can hold for publishing.
PublishConfigs ==
    {[facebook_page_token |-> fb, facebook_page_id |-> fb,
      auto_share_to_story |-> share] :
         fb \in BOOLEAN, share \in BOOLEAN} \
    {[facebook_page_token |-> FALSE, facebook_page_id |-> FALSE,
      auto_share_to_story |-> FALSE]}

InitialVideo(u) ==
    [user_id |-> u, script_id |-> u, file_path |-> <<u, u, 0>>,
     status |-> "completed", facebook_video_id |-> NoId,
     posted_at |-> NoTime]

\* Two owners with one rendered video each and nothing scheduled or queued
\* yet.  The owners have connected a Facebook page (with story sharing on or
\* off) or not, and the video files are on disk; or the files were lost
\* with the container, and then the file check fails before the
\* credentials are looked at.
InitPub ==
    /\ now = 1
    /\ render = NoRender
    /\ script_generation_jobs = <<>>
    /\ video_generation_jobs = <<>>
    /\ scripts = [u \in Users |-> [user_id |-> u, selected |-> FALSE]]
    /\ videos = [u \in Users |-> InitialVideo(u)]
    /\ users = [u \in Users |-> [videos_generated |-> 1]]
    /\ \E config \in PublishConfigs : api_keys = [u \in Users |-> config]
    /\ \/ files = {InitialVideo(u).file_path : u \in Users}
       \/ files = {} /\ HasFacebook(1) /\ api_keys[1].auto_share_to_story
    /\ scheduled_posts = <<>>
    /\ video_queue = <<>>
    /\ threads = <<>>
    /\ fb_calls = <<>>
    /\ out = <<>>

Entries == Len(scheduled_posts) + Len(video_queue)

\* The lists of video ids a request names.
VideoIdLists == {<<v>> : v \in Ids(videos)}

\* The lists the owner's own page offers for scheduling.
OwnVideoIdLists(session) ==
    {<<v>> : v \in {w \in Live(videos) : videos[w].user_id = session}}

NextPub ==
    \/ AdvanceClock
    \/ \E u \in Users :
          \E ids \in OwnVideoIdLists(u), start \in now..MaxTime :
              /\ Entries + Len(ids) <= MaxEntries
              /\ schedule_posts(u, ids, start, 1)
    \/ \E u \in Users, ids \in VideoIdLists :
          /\ Entries + Len(ids) <= MaxEntries
          /\ add_to_queue(u, ids)
    \/ Len(fb_calls) < MaxCalls /\ post_scheduled_videos
    \/ Len(fb_calls) < MaxCalls /\ process_video_queue

SpecPub == InitPub /\ [][NextPub]_vars

\* In these sweeps no statement of an attempt raises after its requests
\* were sent, and the commit goes through.
SweepEnv == {e \in Env : e.exc # "after"}

\* The three callers of the upload on their own.  The owners have
\* scheduled or queued up to MaxEntries of their videos, all due; any of the
\* video files may be lost; and the owners post videos at once while the
\* two tasks tick.
InitAttempt ==
    /\ now = 1
    /\ render = NoRender
    /\ script_generation_jobs = <<>>
    /\ video_generation_jobs = <<>>
    /\ scripts = [u \in Users |-> [user_id |-> u, selected |-> FALSE]]
    /\ videos = [u \in Users |-> InitialVideo(u)]
    /\ users = [u \in Users |-> [videos_generated |-> 1]]
    /\ \E config \in PublishConfigs : api_keys = [u \in Users |-> config]
    /\ files \in SUBSET {InitialVideo(u).file_path : u \in Users}
    /\ \E n \in 0..MaxEntries :
          /\ scheduled_posts \in
                 [1..n -> {NewPosts(u, <<u>>, 1, 1)[1] : u \in Users}]
          /\ \E k \in 0..(MaxEntries - n) :
                 video_queue \in
                     [1..k -> {AddEach(<<>>, u, <<u>>)[1] : u \in Users}]
    /\ threads = <<>>
    /\ fb_calls = <<>>
    /\ out = <<>>

NextAttempt ==
    \/ Len(fb_calls) < MaxCalls /\ Sweep(SweepEnv, {TRUE})
    \/ Len(fb_calls) < MaxCalls /\ process_video_queue
    \/ \E v \in Ids(videos) :
          Len(fb_calls) < MaxCalls /\ post_video_now(videos[v].user_id, v)

SpecAttempt == InitAttempt /\ [][NextAttempt]_vars

\* What the api_keys row can hold of the page's credentials: the token and
\* the page id are two columns, saved from two form fields.
CredConfigs ==
    [facebook_page_token : BOOLEAN, facebook_page_id : BOOLEAN,
     auto_share_to_story : BOOLEAN]

\* The four callers of the upload and the credentials.  The files are on
\* disk; the owners' api_keys rows hold both credentials, one of them or
\* none; and up to MaxEntries requests are waiting: videos of script 1
\* that owner 1 has asked for, and scheduled posts and queue entries of
\* owner 1's video, all due.
InitCreds ==
    /\ now = 1
    /\ render = NoRender
    /\ script_generation_jobs = <<>>
    /\ scripts = [u \in Users |-> [user_id |-> u, selected |-> FALSE]]
    /\ videos = [u \in Users |-> InitialVideo(u)]
    /\ users = [u \in Users |-> [videos_generated |-> 1]]
    /\ \E config \in CredConfigs : api_keys = [u \in Users |-> config]
    /\ files = {InitialVideo(u).file_path : u \in Users}
    /\ \E m \in 0..MaxEntries :
          /\ video_generation_jobs =
                 [j \in 1..m |->
                     [user_id |-> 1, status |-> "pending", script_id |-> 1,
                      created_at |-> now, started_at |-> NoTime,
                      completed_at |-> NoTime, error_message |-> "",
                      video_path |-> NoPath, facebook_video_id |-> NoId]]
          /\ \E n \in 0..(MaxEntries - m) :
                 /\ scheduled_posts =
                        [p \in 1..n |-> NewPosts(1, <<1>>, 1, 1)[1]]
                 /\ \E k \in 0..(MaxEntries - m - n) :
                        video_queue =
                            [q \in 1..k |-> AddEach(<<>>, 1, <<1>>)[1]]
    /\ threads = <<>>
    /\ fb_calls = <<>>
    /\ out = <<>>

NextCreds ==
    \/ NextAttempt
    \/ process_video_generation_queue(Len(video_generation_jobs))
    \/ \E t \in 1..Len(threads) :
          \/ VideoJobClaim(t)
          \/ VideoJobRender(t)
          \/ Len(fb_calls) < MaxCalls /\ VideoJobPublish(t)

SpecCreds == InitCreds /\ [][NextCreds]_vars

\* The queue on its own: the owner queues and deletes videos while the
\* queue task ticks.
NextQueue ==
    \/ AdvanceClock
    \/ \E u \in Users, ids \in VideoIdLists :
          /\ Len(video_queue) + Len(ids) <= MaxQueued
          /\ add_to_queue(u, ids)
    \/ \E u \in Users, v \in Ids(videos) : delete_video(u, v)
    \/ Len(fb_calls) < MaxCalls /\ process_video_queue

SpecQueue == InitPub /\ [][NextQueue]_vars

\* The sweep on its own.  The owners have scheduled up to MaxPosts posts,
\* each of their own video for any time, and schedule nothing more.
InitSweep ==
    /\ now = 1
    /\ render = NoRender
    /\ script_generation_jobs = <<>>
    /\ video_generation_jobs = <<>>
    /\ scripts = [u \in Users |-> [user_id |-> u, selected |-> FALSE]]
    /\ videos = [u \in Users |-> InitialVideo(u)]
    /\ users = [u \in Users |-> [videos_generated |-> 1]]
    /\ \E config \in PublishConfigs : api_keys = [u \in Users |-> config]
    /\ \/ files = {InitialVideo(u).file_path : u \in Users}
       \/ files = {} /\ HasFacebook(1) /\ api_keys[1].auto_share_to_story
    /\ \E n \in 0..MaxPosts :
          scheduled_posts \in
              [1..n -> UNION {{NewPosts(u, <<u>>, t, 1)[1] : t \in 1..MaxTime}
                                 : u \in Users}]
    /\ video_queue = <<>>
    /\ threads = <<>>
    /\ fb_calls = <<>>
    /\ out = <<>>

NextSweep ==
    \/ AdvanceClock
    \/ Len(fb_calls) < MaxCalls /\ Sweep(SweepEnv, {TRUE})

SpecSweep == InitSweep /\ [][NextSweep]_vars

\* The owners schedule and delete videos while the sweep ticks.  Every
\* attempt settles its row here (SweepEnv, and the commit goes through),
\* so the sweeps send no more than two requests for each post.
NextSweepDelete ==
    \/ AdvanceClock
    \/ \E u \in Users :
          \E ids \in OwnVideoIdLists(u), start \in now..MaxTime :
              /\ Len(scheduled_posts) + Len(ids) <= MaxPosts
              /\ schedule_posts(u, ids, start, 1)
    \/ \E u \in Users, v \in Ids(videos) : delete_video(u, v)
    \/ Sweep(SweepEnv, {TRUE})

\* The scheduler runs the sweep every 60 seconds, for ever.
SpecSweepDelete ==
    /\ InitPub
    /\ [][NextSweepDelete]_vars
    /\ WF_vars(Sweep(SweepEnv, {TRUE}))

\* The renderer on its own: a script with any texts, and any outcome of
\* the FFmpeg run of each section that has words (the run for a caption
\* of white space returns 0).
InitRender ==
    /\ now = 1
    /\ script_generation_jobs = <<>>
    /\ video_generation_jobs = <<>>
    /\ scripts = <<>>
    /\ videos = <<>>
    /\ files = {}
    /\ users = <<>>
    /\ api_keys = <<>>
    /\ scheduled_posts = <<>>
    /\ video_queue = <<>>
    /\ threads = <<>>
    /\ fb_calls = <<>>
    /\ out = <<>>
    /\ \E script \in [SectionNames -> Texts],
          runs \in [SectionNames -> SlideRuns], concat_ok \in BOOLEAN :
          /\ \A x \in SectionNames : script[x] # "text" => runs[x] = "ok"
          /\ render = [script |-> script, keys |-> NoVoiceKeys,
                       tts |-> NoTts, runs |-> runs,
                       concat_ok |-> concat_ok, calls |-> <<>>,
                       result |-> FALSE, temp_dir |-> RemovedDir,
                       returned |-> FALSE]

NextRender == RenderVideo

SpecRender == InitRender /\ [][NextRender]_vars

\* One video job from the queue to its terminal status, rendering a script
\* whose sections are empty or have words.  The owner has no Facebook page
\* connected.
JobTexts == {"", "text"}

InitRenderJob ==
    /\ now = 1
    /\ script_generation_jobs = <<>>
    /\ video_generation_jobs =
           <<[user_id |-> 1, script_id |-> 1, status |-> "pending",
              video_path |-> NoPath, error_message |-> "",
              created_at |-> 1, started_at |-> NoTime,
              completed_at |-> NoTime, facebook_video_id |-> NoId]>>
    /\ scripts = <<[user_id |-> 1, selected |-> TRUE]>>
    /\ videos = <<>>
    /\ files = {}
    /\ users = [u \in Users |-> [videos_generated |-> 0]]
    /\ api_keys = [u \in Users |->
                      [facebook_page_token |-> FALSE,
                       facebook_page_id |-> FALSE,
                       auto_share_to_story |-> TRUE]]
    /\ scheduled_posts = <<>>
    /\ video_queue = <<>>
    /\ threads = <<>>
    /\ fb_calls = <<>>
    /\ out = <<>>
    /\ \E script \in [SectionNames -> JobTexts],
          runs \in [SectionNames -> SlideRuns], concat_ok \in BOOLEAN :
          /\ \A x \in SectionNames : script[x] # "text" => runs[x] = "ok"
          /\ render = [script |-> script, keys |-> NoVoiceKeys,
                       tts |-> NoTts, runs |-> runs,
                       concat_ok |-> concat_ok, calls |-> <<>>,
                       result |-> FALSE, temp_dir |-> RemovedDir,
                       returned |-> FALSE]

NextRenderJob ==
    \/ process_video_generation_queue(VideoLimit)
    \/ \E t \in 1..Len(threads) :
          \/ VideoJobClaim(t)
          \/ VideoJobRenderScript(t)
          \/ VideoJobPublish(t)

SpecRenderJob == InitRenderJob /\ [][NextRenderJob]_vars

\* The renderer with narration: an owner with or without a stored key,
\* with narration enabled or disabled in the settings, sections that are
\* empty or have words, and any outcome of each request to ElevenLabs and
\* of each FFmpeg run (none timing out).
VoiceKeys == {"", "xi-key"}
AudioDurations == {3 * UnitsPerSecond}

\* One section of the script with what happens to it: no text; or words,
\* a request to ElevenLabs that fails or gives audio, and an FFmpeg run
\* that returns 0 or an error code.
VoiceCases ==
    {[text |-> "", ok |-> FALSE, duration |-> 0, run |-> "ok"]}
    \cup [text : {"text"}, ok : {FALSE}, duration : {0},
          run : {"ok", "fail"}]
    \cup [text : {"text"}, ok : {TRUE}, duration : AudioDurations,
          run : {"ok", "fail"}]

InitVoice ==
    /\ now = 1
    /\ script_generation_jobs = <<>>
    /\ video_generation_jobs = <<>>
    /\ scripts = <<>>
    /\ videos = <<>>
    /\ files = {}
    /\ users = <<>>
    /\ api_keys = <<>>
    /\ scheduled_posts = <<>>
    /\ video_queue = <<>>
    /\ threads = <<>>
    /\ fb_calls = <<>>
    /\ out = <<>>
    /\ \E c \in [SectionNames -> VoiceCases],
          key \in VoiceKeys, enabled \in BOOLEAN, raises \in BOOLEAN,
          concat_ok \in BOOLEAN :
          render = [script |-> [x \in SectionNames |-> c[x].text],
                    keys |-> [NoVoiceKeys EXCEPT
                                 !.elevenlabs_api_key = key,
                                 !.elevenlabs_enabled = enabled],
                    tts |-> [ok |-> [x \in SectionNames |-> c[x].ok],
                             duration |->
                                 [x \in SectionNames |-> c[x].duration],
                             raises |-> raises],
                    runs |-> [x \in SectionNames |-> c[x].run],
                    concat_ok |-> concat_ok, calls |-> <<>>,
                    result |-> FALSE, temp_dir |-> RemovedDir,
                    returned |-> FALSE]

SpecVoice == InitVoice /\ [][NextRender]_vars

\* The timing of one slide on its own: a caption of up to MaxWords words,
\* or of 1000, with or without narration of up to MaxNarration fourteenths
\* of a second.
MaxWords == 30
MaxNarration == 20

TimeSlide ==
    /\ ~render.returned
    /\ LET section_durations ==
               IF render.narrated
               THEN [x \in {render.section} |->
                        [audio_file |-> AudioPath(x),
                         duration |-> render.narration]]
               ELSE NoDurations
       IN  render' = [render EXCEPT
               !.slide_duration = SlideDuration(section_durations,
                                      render.section, render.word_count),
               !.returned = TRUE]
    /\ UNCHANGED <<now, script_generation_jobs, video_generation_jobs,
                   mediaVars, accountVars, postVars, threads, fb_calls, out>>

InitDuration ==
    /\ now = 1
    /\ script_generation_jobs = <<>>
    /\ video_generation_jobs = <<>>
    /\ scripts = <<>>
    /\ videos = <<>>
    /\ files = {}
    /\ users = <<>>
    /\ api_keys = <<>>
    /\ scheduled_posts = <<>>
    /\ video_queue = <<>>
    /\ threads = <<>>
    /\ fb_calls = <<>>
    /\ out = <<>>
    /\ \E section \in SectionNames, word_count \in (0..MaxWords) \cup {1000},
          narrated \in BOOLEAN, narration \in 0..MaxNarration :
          /\ ~narrated => narration = 0
          /\ render = [section |-> section, word_count |-> word_count,
                       narrated |-> narrated, narration |-> narration,
                       slide_duration |-> 0, returned |-> FALSE]

NextDuration == TimeSlide

SpecDuration == InitDuration /\ [][NextDuration]_vars

\* ------------------------------------------------------- wrap_text
\* A text is the sequence of its characters.
RECURSIVE SplitFrom(_, _, _, _)
\* The words of the text from character i on; the word being read began
\* at character `start`, and `words` are the words before it.
SplitFrom(text, i, start, words) ==
    LET word == SubSeq(text, start, i - 1)
        read == IF word = <<>> THEN words ELSE Append(words, word)
    IN  IF i > Len(text) THEN read
        ELSE IF text[i] = " " THEN SplitFrom(text, i + 1, i + 1, read)
        ELSE SplitFrom(text, i + 1, start, words)

\* text.split(): the runs of characters between white space, in order.
Split(text) == SplitFrom(text, 1, 1, <<>>)

RECURSIVE Join(_, _)
\* sep.join(parts)
Join(sep, parts) ==
    IF parts = <<>> THEN <<>>
    ELSE IF Len(parts) = 1 THEN parts[1]
    ELSE parts[1] \o sep \o Join(sep, Tail(parts))

\* '\\N', the line break of a subtitle: a backslash and the letter N
LineBreak == <<"\\", "N">>

\* The default of max_chars (line 3653)
max_chars == 24

RECURSIVE WrapWords(_, _, _, _)
\* The loop of wrap_text (lines 3660-3671) over the words that are left.
WrapWords(words, lines, current_line, current_length) ==
    IF words = <<>>
    THEN IF current_line # <<>>
         THEN Append(lines, Join(<<" ">>, current_line))
         ELSE lines
    ELSE LET word == Head(words)
         IN  IF current_length + Len(word) + 1 <= max_chars
             THEN WrapWords(Tail(words), lines, Append(current_line, word),
                            current_length + Len(word) + 1)
             ELSE WrapWords(Tail(words),
                            IF current_line # <<>>
                            THEN Append(lines, Join(<<" ">>, current_line))
                            ELSE lines,
                            <<word>>, Len(word))

\* wrap_text (lines 3653-3673)
wrap_text(text) ==
    Join(LineBreak, WrapWords(Split(text), <<>>, <<>>, 0))

\* The words of the texts that are wrapped: one letter, half a line, what
\* fills the line after that half and a space, more than a line, and the
\* two characters of a line break.
Vocabulary ==
    {<<"a">>, [i \in 1..12 |-> "b"], [i \in 1..11 |-> "d"],
     [i \in 1..25 |-> "c"], <<"\\", "N">>}
Gaps == {<<" ">>, <<" ", " ">>}
MaxTextWords == 3

\* A caption is wrapped.
WrapText ==
    /\ ~render.returned
    /\ render' = [render EXCEPT !.wrapped = wrap_text(render.text),
                                !.returned = TRUE]
    /\ UNCHANGED <<now, script_generation_jobs, video_generation_jobs,
                   mediaVars, accountVars, postVars, threads, fb_calls, out>>

InitWrap ==
    /\ now = 1
    /\ script_generation_jobs = <<>>
    /\ video_generation_jobs = <<>>
    /\ scripts = <<>>
    /\ videos = <<>>
    /\ files = {}
    /\ users = <<>>
    /\ api_keys = <<>>
    /\ scheduled_posts = <<>>
    /\ video_queue = <<>>
    /\ threads = <<>>
    /\ fb_calls = <<>>
    /\ out = <<>>
    /\ \E n \in 0..MaxTextWords, gap \in Gaps, padded \in BOOLEAN :
          \E words \in [1..n -> Vocabulary] :
              render = [text |-> (IF padded THEN <<" ">> ELSE <<>>)
                                     \o Join(gap, words),
                        wrapped |-> <<>>, returned |-> FALSE]

NextWrap == WrapText

SpecWrap == InitWrap /\ [][NextWrap]_vars

\* ------------------------------------------------ generate_hashtags
\* Here a text is a string; Char(text, i) is its i-th character.
Char(text, i) == SubSeq(text, i, i)
InString(c, text) == \E i \in 1..Len(text) : Char(text, i) = c

UpperCase == "ABCDEFGHIJKLMNOPQRSTUVWXYZ"
LowerCase == "abcdefghijklmnopqrstuvwxyz"
Digits == "0123456789_"

RECURSIVE Lower(_)
\* str.lower(), one half of the text after the other
Lower(text) ==
    IF Len(text) = 0 THEN ""
    ELSE IF Len(text) = 1
    THEN IF InString(text, UpperCase)
         THEN Char(LowerCase, CHOOSE k \in 1..Len(UpperCase) :
                                  Char(UpperCase, k) = text)
         ELSE text
    ELSE Lower(SubSeq(text, 1, Len(text) \div 2))
             \o Lower(SubSeq(text, Len(text) \div 2 + 1, Len(text)))

\* A character that \b takes for part of a word
IsWordChar(c) == InString(c, LowerCase) \/ InString(c, Digits)

\* re.findall(r'\b[a-z]{4,}\b', text): the runs of word characters that
\* are four or more lower-case letters and nothing else, in the order of
\* the places where they begin.
FindWords(text) ==
    LET begins == {i \in 1..Len(text) :
                      /\ IsWordChar(Char(text, i))
                      /\ i = 1 \/ ~IsWordChar(Char(text, i - 1))}
        Run(i) == SubSeq(text, i,
                      CHOOSE j \in i..Len(text) :
                          /\ \A k \in i..j : IsWordChar(Char(text, k))
                          /\ j = Len(text) \/ ~IsWordChar(Char(text, j + 1)))
        matches == {i \in begins :
                       /\ Len(Run(i)) >= 4
                       /\ \A k \in 1..Len(Run(i)) :
                             InString(Char(Run(i), k), LowerCase)}
        order == SetToSeq(matches)
    IN  [k \in DOMAIN order |-> Run(order[k])]

\* `pat in text`
Contains(text, pat) ==
    \E i \in 1..(Len(text) - Len(pat) + 1) :
        SubSeq(text, i, i + Len(pat) - 1) = pat

common_hashtags ==
    <<"#fyp", "#foryou", "#viral", "#trending", "#explore",
      "#didyouknow", "#facts", "#mindblown", "#interesting",
      "#learnontiktok", "#educational", "#amazing", "#wow",
      "#reels", "#fbreels", "#facebookreels">>

\* The dict topic_keywords, in the order of its keys.
topic_keywords ==
    <<[category |-> "science", tags |-> <<"#science", "#scientists",
          "#research", "#discovery", "#biology">>],
      [category |-> "animal", tags |-> <<"#animals", "#wildlife",
          "#nature", "#animalfacts", "#pets">>],
      [category |-> "space", tags |-> <<"#space", "#universe",
          "#astronomy", "#galaxy", "#nasa">>],
      [category |-> "ocean", tags |-> <<"#ocean", "#marine",
          "#sealife", "#underwater", "#fish">>],
      [category |-> "psychology", tags |-> <<"#psychology",
          "#mentalhealth", "#brain", "#mindset", "#therapy">>],
      [category |-> "food", tags |-> <<"#food", "#foodscience",
          "#cooking", "#chef", "#nutrition">>],
      [category |-> "nature", tags |-> <<"#nature", "#environment",
          "#earth", "#wild", "#outdoors">>],
      [category |-> "history", tags |-> <<"#history", "#historical",
          "#past", "#civilization", "#ancient">>],
      [category |-> "technology", tags |-> <<"#technology", "#tech",
          "#innovation", "#future", "#gadgets">>],
      [category |-> "health", tags |-> <<"#health", "#wellness",
          "#fitness", "#medical", "#body">>],
      [category |-> "human body", tags |-> <<"#humanbody", "#anatomy",
          "#health", "#biology", "#science">>]>>

StopWords ==
    {"this", "that", "with", "from", "have", "been", "were", "they"}

\* seq[:n]
FirstN(seq, n) == SubSeq(seq, 1, IF Len(seq) < n THEN Len(seq) ELSE n)

RECURSIVE WordFreq(_, _)
\* The dict word_freq (lines 394-397) as the list of its items, in the
\* order in which the words were first seen.
WordFreq(words, word_freq) ==
    IF words = <<>> THEN word_freq
    ELSE LET word == Head(words)
             at == {k \in DOMAIN word_freq : word_freq[k].word = word}
         IN  WordFreq(Tail(words),
                 IF word \in StopWords THEN word_freq
                 ELSE IF at = {}
                 THEN Append(word_freq, [word |-> word, count |-> 1])
                 ELSE [k \in DOMAIN word_freq |->
                          IF k \in at
                          THEN [word_freq[k] EXCEPT !.count = @ + 1]
                          ELSE word_freq[k]])

RECURSIVE SortedByCount(_)
\* sorted(items, key=count, reverse=True): the highest count first, items
\* of equal count in the order they had.
SortedByCount(items) ==
    IF items = <<>> THEN <<>>
    ELSE LET best == CHOOSE k \in DOMAIN items :
                         /\ \A m \in DOMAIN items :
                               items[m].count <= items[k].count
                         /\ \A m \in 1..(k - 1) :
                               items[m].count < items[k].count
         IN  <<items[best]>>
                 \o SortedByCount(SubSeq(items, 1, best - 1)
                                      \o SubSeq(items, best + 1, Len(items)))

RECURSIVE Unique_KeepAll(_, _)
\* A last loop that keeps the tags it has seen before.
Unique_KeepAll(all_hashtags, unique_hashtags) ==
    IF all_hashtags = <<>> \/ Len(unique_hashtags) >= 5
    THEN unique_hashtags
    ELSE Unique_KeepAll(Tail(all_hashtags),
                        Append(unique_hashtags, Head(all_hashtags)))

RECURSIVE Unique(_, _)
\* The last loop (lines 411-418): each tag once, five at most.
Unique(all_hashtags, unique_hashtags) ==
    IF all_hashtags = <<>> \/ Len(unique_hashtags) >= 5
    THEN unique_hashtags
    ELSE LET tag == Head(all_hashtags)
             seen == {unique_hashtags[k] : k \in DOMAIN unique_hashtags}
         IN  Unique(Tail(all_hashtags),
                    IF tag \in seen THEN unique_hashtags
                    ELSE Append(unique_hashtags, tag))

RECURSIVE JoinTags(_)
\* ' '.join(unique_hashtags)
JoinTags(tags) ==
    IF tags = <<>> THEN ""
    ELSE IF Len(tags) = 1 THEN tags[1]
    ELSE tags[1] \o " " \o JoinTags(Tail(tags))

\* generate_hashtags (lines 361-420)
generate_hashtags(topic, hook, payoff) ==
    LET text == Lower(topic \o " " \o hook \o " " \o payoff)
        words == FindWords(text)
        top_words == FirstN(SortedByCount(WordFreq(words, <<>>)), 5)
        content_hashtags ==
            [k \in DOMAIN top_words |-> "#" \o top_words[k].word]
        matching == {k \in DOMAIN topic_keywords :
                        Contains(text, topic_keywords[k].category)}
        category_hashtags ==
            IF matching = {} THEN <<>>
            ELSE FirstN(topic_keywords[
                     CHOOSE k \in matching : \A m \in matching : k <= m
                 ].tags, 3)
        all_hashtags == content_hashtags \o category_hashtags
                            \o FirstN(common_hashtags, 3)
    IN  JoinTags(Unique(all_hashtags, <<>>))

\* The topics, hooks and payoffs of the scripts whose hashtags are made.
Topics == {"", "Space", "The human body", "Ocean science"}
Hooks == {"", "Did you know this about SPACE?",
          "viral viral facts: fish have been here since h2o began",
          "Your body and your brain"}
Payoffs == {"", "Space is big, space is viral",
            "That is why oceans matter to every animal",
            "Science wins again and again and again"}

\* The post is published twice, and its hashtags are made each time.
MakeHashtags ==
    /\ Len(render.results) < 2
    /\ render' = [render EXCEPT !.results =
           Append(@, generate_hashtags(render.topic, render.hook,
                                       render.payoff))]
    /\ UNCHANGED <<now, script_generation_jobs, video_generation_jobs,
                   mediaVars, accountVars, postVars, threads, fb_calls, out>>

InitHashtags ==
    /\ now = 1
    /\ script_generation_jobs = <<>>
    /\ video_generation_jobs = <<>>
    /\ scripts = <<>>
    /\ videos = <<>>
    /\ files = {}
    /\ users = <<>>
    /\ api_keys = <<>>
    /\ scheduled_posts = <<>>
    /\ video_queue = <<>>
    /\ threads = <<>>
    /\ fb_calls = <<>>
    /\ out = <<>>
    /\ \E topic \in Topics, hook \in Hooks, payoff \in Payoffs :
          render = [topic |-> topic, hook |-> hook, payoff |-> payoff,
                    results |-> <<>>]

NextHashtags == MakeHashtags

SpecHashtags == InitHashtags /\ [][NextHashtags]_vars

\* The owner asks for videos, of the same script too, while the video
\* dispatcher and its workers run.
SameScriptJobs == 2

NextSameScript ==
    \/ AdvanceClock
    \/ Len(video_generation_jobs) < SameScriptJobs /\ generate_video(1)
    \/ process_video_generation_queue(VideoLimit)
    \/ \E t \in 1..Len(threads) :
          \/ VideoJobClaim(t)
          \/ VideoJobRender(t)
          \/ VideoJobPublish(t)

SpecSameScript == InitGen /\ [][NextSameScript]_vars

\* The two dispatchers on their own.  The process has just restarted: each
\* table holds a job that failed before the restart, and no thread runs.
InitDispatch ==
    /\ now = 1
    /\ render = NoRender
    /\ script_generation_jobs =
           <<[user_id |-> 1, status |-> "failed", created_at |-> 1,
              started_at |-> 1, completed_at |-> 1,
              error_message |-> "AI provider returned no scripts",
              num_scripts |-> DefaultNumScripts]>>
    /\ video_generation_jobs =
           <<[user_id |-> 1, status |-> "failed", script_id |-> 1,
              created_at |-> 1, started_at |-> 1, completed_at |-> 1,
              error_message |-> "FFmpeg video generation failed",
              video_path |-> NoPath, facebook_video_id |-> NoId]>>
    /\ scripts = <<[user_id |-> 1, selected |-> TRUE]>>
    /\ videos = <<>>
    /\ files = {}
    /\ users = [u \in Users |-> [videos_generated |-> 0]]
    /\ api_keys = [u \in Users |->
                      [facebook_page_token |-> FALSE,
                       facebook_page_id |-> FALSE,
                       auto_share_to_story |-> TRUE]]
    /\ scheduled_posts = <<>>
    /\ video_queue = <<>>
    /\ threads = <<>>
    /\ fb_calls = <<>>
    /\ out = <<>>

PendingRows ==
    Cardinality(PendingIds(script_generation_jobs))
        + Cardinality(PendingIds(video_generation_jobs))

\* Requests pile up pending rows and the ticks start workers; no worker
\* gets to run.
NextDispatch ==
    \/ AdvanceClock
    \/ PendingRows < MaxPending /\ generate_scripts(1)
    \/ PendingRows < MaxPending /\ generate_video(1)
    \/ process_script_generation_queue(MaxStarted)
    \/ process_video_generation_queue(MaxStarted)

SpecDispatch == InitDispatch /\ [][NextDispatch]_vars

\* ---------------------------------------- claims on the generation pipeline
JobTables == <<script_generation_jobs, video_generation_jobs>>

WorkersOf(kind, j) ==
    {t \in 1..Len(threads) : threads[t].kind = kind /\ threads[t].job = j}

\* C1: no generation job row is dispatched twice: at most one worker thread
\* is ever started for a row of script_generation_jobs or of
\* video_generation_jobs.
C1_NoRowDispatchedTwice ==
    /\ \A j \in Ids(script_generation_jobs) :
          Cardinality(WorkersOf("script", j)) <= 1
    /\ \A j \in Ids(video_generation_jobs) :
          Cardinality(WorkersOf("video", j)) <= 1

\* C2: the claim precedes the dispatch: while a started worker thread has not
\* run its first statement yet, its row is already out of `pending`.
C2_ClaimedBeforeDispatch ==
    \A t \in 1..Len(threads) :
        threads[t].pc = "start" =>
            IF threads[t].kind = "script"
            THEN script_generation_jobs[threads[t].job].status # "pending"
            ELSE video_generation_jobs[threads[t].job].status # "pending"

StatusKept(table, table2) ==
    \A j \in Ids(table) :
        table[j].status \in Terminal => table2[j].status = table[j].status

\* C3: a job that is completed or failed keeps that status in every later
\* step.
C3_TerminalIsFinal ==
    [][/\ StatusKept(script_generation_jobs, script_generation_jobs')
       /\ StatusKept(video_generation_jobs, video_generation_jobs')]_vars

StartedAtKept(table, table2) ==
    \A j \in Ids(table) :
        /\ table[j].started_at # NoTime =>
               table2[j].started_at = table[j].started_at
        /\ table2[j].started_at # table[j].started_at =>
               table[j].status = "pending" /\ table2[j].status = "processing"

\* C4: started_at is written once, in the step that takes the row from
\* pending to processing, and no later step changes it.
C4_StartedAtWrittenOnce ==
    [][/\ StartedAtKept(script_generation_jobs, script_generation_jobs')
       /\ StartedAtKept(video_generation_jobs, video_generation_jobs')]_vars

LegalEdges ==
    {<<"pending", "processing">>, <<"processing", "completed">>,
     <<"processing", "failed">>}

EdgesLegal(table, table2) ==
    \A j \in Ids(table) :
        table2[j].status # table[j].status =>
            <<table[j].status, table2[j].status>> \in LegalEdges

\* C5: every status change of a generation job is pending -> processing,
\* processing -> completed or processing -> failed.
C5_OnlyLegalEdges ==
    [][/\ EdgesLegal(script_generation_jobs, script_generation_jobs')
       /\ EdgesLegal(video_generation_jobs, video_generation_jobs')]_vars

\* ------------------------------------------- claims on the publishing side
\* The requests the step sends to Facebook.
NewCalls == (Len(fb_calls) + 1)..Len(fb_calls')

\* The step makes a publish attempt for row id of the task's table: it
\* prints a line for the row, or sends a request for it.
Attempts(task, id) ==
    \/ \E i \in DOMAIN out' : out'[i].task = task /\ out'[i].row = id
    \/ \E i \in NewCalls : fb_calls'[i].by = task /\ fb_calls'[i].row = id

Settled == {"failed", "posted"}

SettledRowsKept(table, table2, task) ==
    \A id \in Ids(table) :
        table[id].status \in Settled =>
            table2[id] = table[id] /\ ~Attempts(task, id)

\* C6: once a scheduled post or a queue entry is failed or posted, no step
\* makes a publish attempt for it or changes the row, whatever its
\* retry_count.
C6_SettledNeverRetried ==
    [][/\ SettledRowsKept(scheduled_posts, scheduled_posts', "scheduled")
       /\ SettledRowsKept(video_queue, video_queue', "queue")]_vars

\* A queue entry has failed once, and a later tick of the queue task has
\* found nothing to do.
C6_Witness ==
    /\ out = <<Line("queue", NoId, "No videos in queue")>>
    /\ \E q \in Ids(video_queue) :
          video_queue[q].status = "failed" /\ video_queue[q].retry_count = 1

AttemptCounted(table, table2, id) ==
    IF table2[id].status = "posted"
    THEN table2[id].retry_count = table[id].retry_count
    ELSE /\ table2[id].status = "failed"
         /\ table2[id].retry_count = table[id].retry_count + 1

\* C7: every attempt for a scheduled post or a queue entry that does not
\* post it (missing file, missing credentials, failed upload, exception)
\* leaves the row failed with retry_count one higher, and an attempt that
\* posts it leaves retry_count as it was.
C7_FailureCountsOnce ==
    [][/\ \A p \in Ids(scheduled_posts) :
             Attempts("scheduled", p) =>
                 AttemptCounted(scheduled_posts, scheduled_posts', p)
       /\ \A q \in Ids(video_queue) :
             Attempts("queue", q) =>
                 AttemptCounted(video_queue, video_queue', q)]_vars

\* The worker threads the step starts for rows of one table.
StartedThreads(kind) ==
    {t \in (Len(threads) + 1)..Len(threads') : threads'[t].kind = kind}

OldestChosen(table, S) ==
    \A s \in S :
        /\ table[s].status = "pending"
        /\ \A r \in Ids(table) \ S :
               table[r].status = "pending" =>
                   table[s].created_at <= table[r].created_at

\* C8: a step starts at most 3 script-generation workers and at most 2
\* video-generation workers, each for a pending row, and no pending row it
\* leaves out has an older created_at than a row it starts a worker for.
C8_TickLimits ==
    [][/\ Cardinality(StartedThreads("script")) <= 3
       /\ Cardinality(StartedThreads("video")) <= 2
       /\ OldestChosen(script_generation_jobs,
              {threads'[t].job : t \in StartedThreads("script")})
       /\ OldestChosen(video_generation_jobs,
              {threads'[t].job : t \in StartedThreads("video")})]_vars

\* Four script jobs are pending; one tick has started workers for three of
\* them and left out a newer one.
C8_Witness ==
    /\ Len(threads) = 3
    /\ Cardinality(PendingIds(script_generation_jobs)) = 4
    /\ \E j \in PendingIds(script_generation_jobs) :
          /\ WorkersOf("script", j) = {}
          /\ \A k \in PendingIds(script_generation_jobs) \ {j} :
                /\ Cardinality(WorkersOf("script", k)) = 1
                /\ script_generation_jobs[k].created_at
                       < script_generation_jobs[j].created_at

\* The queue entries the step makes a publish attempt for.
AttemptedEntries ==
    {q \in Ids(video_queue) :
        video_queue'[q] # video_queue[q] \/ Attempts("queue", q)}

\* C9: a tick of the queue task makes a publish attempt for at most one
\* queue entry, and no entry with status queued has a smaller queued_at
\* than the entry it takes.
C9_OldestQueuedFirst ==
    [][process_video_queue =>
          /\ Cardinality(AttemptedEntries) <= 1
          /\ \A q \in AttemptedEntries :
                \A r \in Ids(video_queue) :
                    video_queue[r].status = "queued" =>
                        video_queue[q].queued_at
                            <= video_queue[r].queued_at]_vars

NoQueued == \A q \in Ids(video_queue) : video_queue[q].status # "queued"

\* C10: a tick of the queue task that finds no entry with status queued
\* sends no request and leaves every row of every table, and the files,
\* unchanged.
C10_EmptyQueueTickIsNoOp ==
    [][(NoQueued /\ process_video_queue) =>
          /\ fb_calls' = fb_calls
          /\ UNCHANGED <<video_queue, scheduled_posts, videos, scripts,
                         files, users, api_keys, script_generation_jobs,
                         video_generation_jobs>>]_vars

\* The queue task has just ticked on an empty queue while a scheduled post
\* was waiting.
C10_Witness ==
    /\ out = <<Line("queue", NoId, "No videos in queue")>>
    /\ video_queue = <<>>
    /\ \E p \in Ids(scheduled_posts) : scheduled_posts[p].status = "pending"

\* C11: no step makes a publish attempt for, or changes, a scheduled post
\* whose scheduled_time is later than the current time or whose status is
\* not pending.
C11_OnlyDuePendingTouched ==
    [][\A p \in Ids(scheduled_posts) :
          (\/ scheduled_posts[p].scheduled_time > now
           \/ scheduled_posts[p].status # "pending") =>
              /\ scheduled_posts'[p] = scheduled_posts[p]
              /\ ~Attempts("scheduled", p)]_vars

\* A sweep has just made an attempt for one post and left alone a pending
\* post that is not due yet.
C11_Witness ==
    \E p, r \in Ids(scheduled_posts) :
        /\ scheduled_posts[p].status = "pending"
        /\ scheduled_posts[p].scheduled_time > now
        /\ scheduled_posts[r].status \in Settled
        /\ \E i \in DOMAIN out :
              out[i].task = "scheduled" /\ out[i].row = r

\* The scheduled_time of the post that line i of the step's output, or
\* request i of the log, is about.
TimeOfLine(i) == scheduled_posts[out'[i].row].scheduled_time
TimeOfCall(i) == scheduled_posts[fb_calls'[i].row].scheduled_time

\* C12: within one sweep the attempts are made in ascending scheduled_time
\* order: the lines the sweep prints for its rows, and the requests it
\* sends for them, never go back in scheduled_time.
C12_AttemptsInTimeOrder ==
    [][/\ \A i, k \in DOMAIN out' :
             (/\ i < k
              /\ out'[i].task = "scheduled" /\ out'[i].row # NoId
              /\ out'[k].task = "scheduled" /\ out'[k].row # NoId) =>
                 TimeOfLine(i) <= TimeOfLine(k)
       /\ \A i, k \in NewCalls :
             (/\ i < k
              /\ fb_calls'[i].by = "scheduled"
              /\ fb_calls'[k].by = "scheduled") =>
                 TimeOfCall(i) <= TimeOfCall(k)]_vars

\* A sweep has just attempted two posts, the one inserted later first
\* because its scheduled_time is the earlier one.
C12_Witness ==
    /\ Len(out) = 2
    /\ out[1].task = "scheduled" /\ out[2].task = "scheduled"
    /\ out[1].row > out[2].row /\ out[2].row # NoId
    /\ scheduled_posts[out[1].row].scheduled_time
           < scheduled_posts[out[2].row].scheduled_time

\* The publishing callers that check the file before the upload.
FileCheckers == {"scheduled", "queue", "post_now"}

\* What a caller prints or answers when a statement of its attempt raised.
RaisedLines == {"exception", "QUEUE ERROR", "SCHEDULER ERROR",
                "An unexpected error occurred"}

\* The video that a line of a publishing caller is about.
VideoOfLine(l) ==
    IF l.task = "scheduled" THEN scheduled_posts[l.row].video_id
    ELSE IF l.task = "queue" THEN video_queue[l.row].video_id
    ELSE l.row

\* The row of a publishing task that a line is about, after the step.
RowOfLine(l) ==
    IF l.task = "scheduled" THEN scheduled_posts'[l.row]
    ELSE video_queue'[l.row]

OwnerOfCall(c) ==
    IF c.by = "scheduled" THEN scheduled_posts[c.row].user_id
    ELSE IF c.by = "queue" THEN video_queue[c.row].user_id
    ELSE IF c.by = "post_now" THEN videos[c.row].user_id
    ELSE video_generation_jobs[c.row].user_id

\* The user's api_keys row holds the page token and the page id.
BothCredentials(u) ==
    api_keys[u].facebook_page_token /\ api_keys[u].facebook_page_id

\* Thread t is a video worker that takes its publishing step.
PublishStep(t) ==
    /\ threads[t].kind = "video"
    /\ threads[t].pc = "publish" /\ threads'[t].pc = "done"

\* C14: no request is sent to Facebook for a user whose page token or page
\* id is missing.  A publishing task that finds them missing (the file
\* being there, and no statement raising) leaves its ScheduledPost or
\* QueueEntry failed with 'Facebook credentials not configured'; the video
\* worker skips publishing and leaves its job completed.
C14_NoUploadWithoutCredentials ==
    [][/\ \A i \in NewCalls : BothCredentials(OwnerOfCall(fb_calls'[i]))
       /\ \A i \in DOMAIN out' :
             LET l == out'[i] IN
             (/\ l.task \in {"scheduled", "queue"} /\ l.row # NoId
              /\ ~BothCredentials(RowOfLine(l).user_id)
              /\ videos[VideoOfLine(l)].file_path \in files
              /\ l.msg \notin RaisedLines) =>
                 /\ l.msg = "Facebook credentials not configured"
                 /\ RowOfLine(l).status = "failed"
                 /\ RowOfLine(l).error_message
                        = "Facebook credentials not configured"
       /\ \A t \in DOMAIN threads :
             LET j == threads[t].job IN
             (/\ PublishStep(t)
              /\ ~BothCredentials(video_generation_jobs[j].user_id)) =>
                 /\ fb_calls' = fb_calls
                 /\ video_generation_jobs' = video_generation_jobs
                 /\ video_generation_jobs[j].status = "completed"
                 /\ video_generation_jobs[j].facebook_video_id = NoId]_vars

\* A publishing task has just failed a row of a user who has saved the
\* page token but no page id.
C14_Witness ==
    \E i \in DOMAIN out :
        /\ out[i].task \in {"scheduled", "queue"}
        /\ out[i].msg = "Facebook credentials not configured"
        /\ api_keys[1].facebook_page_token
        /\ ~api_keys[1].facebook_page_id
        /\ fb_calls = <<>>

\* The story id that came back for the row of upload c in this step, if a
\* story share was requested for it and answered with one.
StoryIdFor(c) ==
    LET S == {k \in NewCalls :
                 /\ fb_calls'[k].api = "video_stories"
                 /\ fb_calls'[k].by = c.by /\ fb_calls'[k].row = c.row}
    IN  IF S = {} THEN NoId ELSE fb_calls'[CHOOSE k \in S : TRUE].id

\* The step says that a statement raised during the attempt of upload c.
RaisedFor(c) ==
    \E i \in DOMAIN out' :
        /\ out'[i].task = c.by /\ out'[i].row \in {c.row, NoId}
        /\ out'[i].msg \in RaisedLines \cup {"Could not update Facebook ID"}

\* C15: a story share that fails is not escalated.  Whenever the upload
\* for a ScheduledPost or QueueEntry came back with a media id (and no
\* statement of the attempt raised), the row ends posted with that media
\* id, and with the story id that came back or none; a video job whose
\* upload came back with a media id stays completed and has the media id
\* recorded, however the story share went.
C15_StoryFailureNotEscalated ==
    [][\A i \in NewCalls :
          LET c == fb_calls'[i] IN
          (c.api = "videos" /\ c.id # NoId /\ ~RaisedFor(c)) =>
              /\ c.by \in {"scheduled", "queue"} =>
                    LET row == IF c.by = "scheduled"
                               THEN scheduled_posts'[c.row]
                               ELSE video_queue'[c.row]
                    IN  /\ row.status = "posted"
                        /\ row.facebook_video_id = c.id
                        /\ row.story_id = StoryIdFor(c)
              /\ c.by = "video_job" =>
                    /\ video_generation_jobs'[c.row].status = "completed"
                    /\ video_generation_jobs'[c.row].facebook_video_id
                           = c.id]_vars

\* A row is posted with its media id and no story id, after its story
\* share was requested and came back with nothing.
C15_Witness ==
    \E i, k \in DOMAIN fb_calls :
        /\ fb_calls[i].api = "videos" /\ fb_calls[i].id # NoId
        /\ fb_calls[i].by \in {"scheduled", "queue"}
        /\ fb_calls[k].api = "video_stories" /\ fb_calls[k].id = NoId
        /\ fb_calls[k].by = fb_calls[i].by /\ fb_calls[k].row = fb_calls[i].row
        /\ LET row == IF fb_calls[i].by = "scheduled"
                      THEN scheduled_posts[fb_calls[i].row]
                      ELSE video_queue[fb_calls[i].row]
           IN  /\ row.status = "posted"
               /\ row.facebook_video_id = fb_calls[i].id
               /\ row.story_id = NoId

\* The job row of thread t, in a jobs table.
JobOf(t, scriptJobs, videoJobs) ==
    IF threads[t].kind = "script" THEN scriptJobs[threads[t].job]
    ELSE videoJobs[threads[t].job]

\* C16: when a step of a generation worker raises, the worker returns
\* through its catch-all and leaves the job row failed with the text of
\* the exception (cut to 1000 characters) as its error_message.
C16_RaisingWorkerFailsJob ==
    [][\A t \in DOMAIN threads :
          (threads[t].pc # "raised" /\ threads'[t].pc = "raised") =>
              LET row == JobOf(t, script_generation_jobs',
                               video_generation_jobs')
              IN  row.status = "failed" /\ row.error_message = "exception"]_vars

StatusIn(table, j, S) == j \in Ids(table) /\ table[j].status \in S

\* C17: every generation job that was moved to processing reaches
\* completed or failed, given that every started worker runs on.
C17_ProcessingEnds ==
    \A j \in 1..MaxJobs :
        /\ StatusIn(script_generation_jobs, j, {"processing"})
               ~> StatusIn(script_generation_jobs, j, Terminal)
        /\ StatusIn(video_generation_jobs, j, {"processing"})
               ~> StatusIn(video_generation_jobs, j, Terminal)

\* Post p is pending and its scheduled_time has passed.
DuePending(p) ==
    /\ p \in Ids(scheduled_posts)
    /\ scheduled_posts[p].status = "pending"
    /\ scheduled_posts[p].scheduled_time <= now

\* Post p is posted or failed.
PostSettled(p) ==
    p \in Ids(scheduled_posts) /\ scheduled_posts[p].status \in Settled

\* C18: with the sweep running every minute, every ScheduledPost that is
\* pending with its scheduled_time in the past is attempted and ends
\* posted or failed; and a sweep that attempts any row leaves no row of
\* its due-set pending, whatever happened to the other rows.
C18_DuePostsSettled ==
    /\ \A p \in 1..MaxPosts : DuePending(p) ~> PostSettled(p)
    /\ [][(\E i \in DOMAIN out' : out'[i].task = "scheduled") =>
             \A p \in Ids(scheduled_posts) :
                 DuePending(p) => scheduled_posts'[p].status \in Settled]_vars

\* The FFmpeg commands of the call, by kind.
ConcatCalls == {i \in DOMAIN render.calls : render.calls[i].cmd = "concat"}
SlideCalls == {i \in DOMAIN render.calls : render.calls[i].cmd = "slide"}

\* The sections, by index, that have text and whose FFmpeg run returned 0.
RenderedOk ==
    {i \in DOMAIN sections :
        /\ render.script[sections[i]] \notin {Missing, ""}
        /\ render.runs[sections[i]] = "ok"}

\* C19: whichever sections are empty or fail to render, the clip list that
\* create_video_ffmpeg hands to the concatenation is the clips of the
\* sections rendered with return code 0, each once, in the order hook,
\* fact1, fact2, fact3, fact4, payoff.
C19_ClipListIsRenderedInOrder ==
    render.returned =>
        \A c \in ConcatCalls :
            LET list == render.calls[c].list
                expected == SetToSeq(RenderedOk)
            IN  /\ Len(list) = Len(expected)
                /\ \A k \in DOMAIN list :
                      list[k] = SlidePath(expected[k], sections[expected[k]])

\* A call has handed four clips to the concatenation: one section had no
\* text and the run of another returned an error code.
C19_Witness ==
    /\ render.returned
    /\ \E c \in ConcatCalls : Len(render.calls[c].list) = 4
    /\ \E x \in SectionNames : render.runs[x] = "fail"
    /\ \E x \in SectionNames : render.script[x] = ""

\* A text that is missing or blank: no value, empty, or white space only.
BlankText(text) == text \in {Missing, "", " "}

\* C20: a section whose text is missing or blank is skipped: FFmpeg is
\* not run for it and no clip of it is handed to the concatenation; and a
\* script whose only such section is fact2 (every run returning 0) has
\* exactly the five slides hook, fact1, fact3, fact4, payoff rendered and
\* concatenated in that order.
C20_BlankSectionSkipped ==
    render.returned =>
        /\ \A i \in DOMAIN sections :
              BlankText(render.script[sections[i]]) =>
                  /\ \A k \in SlideCalls :
                        render.calls[k].section # sections[i]
                  /\ \A c \in ConcatCalls :
                        \A k \in DOMAIN render.calls[c].list :
                            render.calls[c].list[k]
                                # SlidePath(i, sections[i])
        /\ (/\ \A x \in SectionNames :
                  BlankText(render.script[x]) <=> x = "fact2"
            /\ \A x \in SectionNames : render.runs[x] = "ok") =>
               /\ [k \in 1..5 |-> render.calls[k].section]
                      = <<"hook", "fact1", "fact3", "fact4", "payoff">>
               /\ Len(render.calls) = 6
               /\ render.calls[6].cmd = "concat"
               /\ render.calls[6].list =
                      <<SlidePath(1, "hook"), SlidePath(2, "fact1"),
                        SlidePath(4, "fact3"), SlidePath(5, "fact4"),
                        SlidePath(6, "payoff")>>

\* The sections that have text for the renderer, and how often FFmpeg was
\* run for section x.
HasText(x) == render.script[x] \notin {Missing, ""}
RunsOf(x) ==
    Cardinality({k \in SlideCalls : render.calls[k].section = x})

\* C21: a renderer failure is per segment.  When FFmpeg returns an error
\* code for some but not all of the sections that have text (and no run
\* times out), FFmpeg has been run exactly once for every section that
\* has text, the failed ones included, and create_video_ffmpeg returns
\* success when the concatenation succeeds.
C21_FailureIsPerSegment ==
    (/\ render.returned
     /\ \E x \in SectionNames : HasText(x) /\ render.runs[x] = "fail"
     /\ \E x \in SectionNames : HasText(x) /\ render.runs[x] = "ok"
     /\ \A x \in SectionNames : render.runs[x] # "timeout") =>
        /\ \A x \in SectionNames : RunsOf(x) = IF HasText(x) THEN 1 ELSE 0
        /\ ConcatCalls # {}
        /\ render.result = render.concat_ok

\* A call has returned success although the run for fact1 failed, the
\* slides after it having been rendered.
C21_Witness ==
    /\ render.returned /\ render.result
    /\ render.runs["fact1"] = "fail"
    /\ RunsOf("fact1") = 1 /\ RunsOf("payoff") = 1
    /\ \A x \in SectionNames : render.runs[x] # "timeout"

\* C22: a run of FFmpeg that exceeds the 120 seconds is treated like a
\* failed run: the section is skipped and not run again, FFmpeg is still
\* run for every other section that has text, and the video is made of
\* the clips that were rendered.
C22_TimeoutIsPerSegment ==
    (/\ render.returned
     /\ \E x \in SectionNames : HasText(x) /\ render.runs[x] = "timeout"
     /\ \E x \in SectionNames : HasText(x) /\ render.runs[x] = "ok") =>
        /\ \A x \in SectionNames : RunsOf(x) = IF HasText(x) THEN 1 ELSE 0
        /\ ConcatCalls # {}
        /\ render.result = render.concat_ok

\* No FFmpeg run of a slide returned 0.
NoneRendered ==
    \A k \in SlideCalls : render.runs[render.calls[k].section] # "ok"

\* C23: when create_video_ffmpeg made no slide, it returns False
\* without running the concatenation and without an output file, and the
\* worker that goes on without an exception marks the job failed with an
\* error_message and adds no Video row.
C23_NothingRenderedFailsJob ==
    [][\A t \in 1..Len(threads) :
          (/\ ~render.returned /\ render'.returned /\ NoneRendered'
           /\ threads[t].pc = "render"
           /\ threads'[t].pc \notin {"render", "raised"}) =>
              /\ ConcatCalls' = {}
              /\ ~render'.result
              /\ files' = files
              /\ videos' = videos
              /\ threads'[t].pc = "done"
              /\ video_generation_jobs'[threads[t].job].status = "failed"
              /\ video_generation_jobs'[threads[t].job].error_message # ""
      ]_vars

C23_Witness ==
    /\ render.returned /\ NoneRendered
    /\ Cardinality(SlideCalls) = 6
    /\ ConcatCalls = {}
    /\ videos = <<>>
    /\ \E t \in 1..Len(threads) :
          /\ threads[t].pc = "done"
          /\ video_generation_jobs[threads[t].job].status = "failed"

\* The narration was asked for, and section x has text but no narration:
\* its request failed, or the narration step raised after the requests.
NarrationAsked == render.keys.elevenlabs_api_key # ""
Unvoiced(x) ==
    /\ NarrationAsked
    /\ HasText(x)
    /\ ~render.tts.ok[x] \/ render.tts.raises

\* C24: a failure of the narration does not fail the video.  A section
\* whose narration failed (alone, with every other, or because the
\* narration step raised) is rendered once, with the length estimated
\* from its words and without audio, and create_video_ffmpeg returns True
\* when every FFmpeg run and the concatenation succeed.
C24_NarrationFailureIsNotFatal ==
    (render.returned /\ \E x \in SectionNames : Unvoiced(x)) =>
        /\ \A x \in SectionNames : Unvoiced(x) =>
              /\ RunsOf(x) = 1
              /\ \A k \in SlideCalls : render.calls[k].section = x =>
                    /\ render.calls[k].audio = NoAudio
                    /\ render.calls[k].duration =
                           EstimatedDuration(WordCount(render.script[x]))
        /\ ((\A x \in SectionNames : render.runs[x] = "ok")
             /\ render.concat_ok) => render.result

C24_Witness ==
    /\ render.returned /\ render.result
    /\ ~render.tts.raises
    /\ Unvoiced("fact1") /\ RunsOf("fact1") = 1
    /\ \E k \in SlideCalls :
          /\ render.calls[k].section = "hook"
          /\ render.calls[k].audio # NoAudio

TtsCalls == {i \in DOMAIN render.calls : render.calls[i].cmd = "tts"}

\* C25: when the owner's api_keys row holds no ElevenLabs key, or holds
\* one with elevenlabs_enabled off, the video job sends no request to
\* ElevenLabs and every slide has the length estimated from its words.
C25_NoNarrationWhenOff ==
    (/\ render.returned
     /\ \/ render.keys.elevenlabs_api_key = ""
        \/ ~render.keys.elevenlabs_enabled) =>
        /\ TtsCalls = {}
        /\ \A k \in SlideCalls :
              /\ render.calls[k].audio = NoAudio
              /\ render.calls[k].duration =
                     EstimatedDuration(
                         WordCount(render.script[render.calls[k].section]))

C27_WorkspaceRemoved ==
    render.returned =>
        /\ ~render.temp_dir.exists
        /\ render.temp_dir.files = {}

RECURSIVE OutputLinesFrom(_, _, _)
\* The lines of the wrapped text from character i on: what stands
\* between its line breaks.  The line being read began at `start`.
OutputLinesFrom(wrapped, i, start) ==
    IF i > Len(wrapped) THEN <<SubSeq(wrapped, start, Len(wrapped))>>
    ELSE IF i < Len(wrapped) /\ wrapped[i] = "\\" /\ wrapped[i + 1] = "N"
    THEN <<SubSeq(wrapped, start, i - 1)>>
             \o OutputLinesFrom(wrapped, i + 2, i + 2)
    ELSE OutputLinesFrom(wrapped, i + 1, start)

OutputLines(wrapped) == OutputLinesFrom(wrapped, 1, 1)

\* C28: the output of wrap_text, with its line breaks replaced by single
\* spaces, is the input with its white space normalized, and no line of
\* a wrapped text that has words is empty.
C28_WrapKeepsWords ==
    render.returned =>
        /\ Join(<<" ">>, OutputLines(render.wrapped))
               = Join(<<" ">>, Split(render.text))
        /\ Split(render.text) # <<>> =>
              \A i \in DOMAIN OutputLines(render.wrapped) :
                  OutputLines(render.wrapped)[i] # <<>>

\* The tags of a result, in order: what stands between its spaces.
Tags(result) ==
    LET begins == {i \in 1..Len(result) :
                      /\ Char(result, i) # " "
                      /\ i = 1 \/ Char(result, i - 1) = " "}
        order == SetToSeq(begins)
    IN  [k \in DOMAIN order |->
            SubSeq(result, order[k],
                CHOOSE j \in order[k]..Len(result) :
                    /\ \A m \in order[k]..j : Char(result, m) # " "
                    /\ j = Len(result) \/ Char(result, j + 1) = " ")]

C30_OutputPathsDiffer ==
    \A t1, t2 \in 1..Len(threads) :
        (/\ threads[t1].kind = "video" /\ threads[t2].kind = "video"
         /\ threads[t1].job # threads[t2].job
         /\ threads[t1].pc = "render" /\ threads[t2].pc = "render") =>
            threads[t1].video_path # threads[t2].video_path

\* The Video rows of a job's owner and script.
VideosOf(job, rows) ==
    {v \in Ids(rows) : /\ rows[v].user_id = job.user_id
                       /\ rows[v].script_id = job.script_id}

\* C31: a video job with status completed has its video_path, and a Video
\* row with that path and status completed exists for its owner and
\* script; the step that adds a Video row clears the script's selected
\* flag; and a job with status failed has no Video row.
C31_CompletedJobHasVideo ==
    [][/\ \A j \in Ids(video_generation_jobs') :
             LET job == video_generation_jobs'[j]
             IN  /\ job.status = "completed" =>
                       /\ job.video_path # NoPath
                       /\ \E v \in VideosOf(job, videos') :
                             /\ videos'[v].file_path = job.video_path
                             /\ videos'[v].status = "completed"
                 /\ job.status = "failed" => VideosOf(job, videos') = {}
       /\ Len(videos') > Len(videos) =>
             ~scripts'[videos'[Len(videos')].script_id].selected
      ]_vars

\* C32: the step in which a script worker ends its job without an
\* exception marks the job failed, with an error_message, exactly when it
\* wrote no script row, and marks it completed only when it wrote one.
C32_FailedIffNothingSaved ==
    [][\A t \in 1..Len(threads) :
          (/\ threads[t].kind = "script" /\ threads[t].pc = "run"
           /\ threads'[t].pc = "done") =>
              LET after == script_generation_jobs'[threads[t].job]
                  saved == Len(scripts') - Len(scripts)
              IN  /\ saved = 0 <=> /\ after.status = "failed"
                                   /\ after.error_message # ""
                  /\ after.status = "completed" => saved > 0
      ]_vars

\* ------------------------------------------- cancelling and removing
\* cancel_scheduled_post (lines 3330-3359), POST /cancel-scheduled/<id>: the
\* row of the session's user is deleted when its status is 'pending';
\* otherwise the request answers 'Cannot cancel' and writes nothing.
cancel_scheduled_post(session, post_id) ==
    LET found == /\ post_id \in Live(scheduled_posts)
                 /\ scheduled_posts[post_id].user_id = session
    IN  /\ post_id \in Ids(scheduled_posts)
        /\ scheduled_posts' =
              IF found /\ scheduled_posts[post_id].status = "pending"
              THEN [scheduled_posts EXCEPT ![post_id].status = "deleted"]
              ELSE scheduled_posts
        /\ out' = <<>>
        /\ UNCHANGED <<now, render, script_generation_jobs,
                       video_generation_jobs, mediaVars, accountVars,
                       video_queue, threads, fb_calls>>

\* remove_from_queue (lines 3449-3468), POST /remove-from-queue/<id>: the
\* SELECT asks for the id and the owner, and the row it finds is deleted.
remove_from_queue(session, queue_id) ==
    LET found == /\ queue_id \in Live(video_queue)
                 /\ video_queue[queue_id].user_id = session
    IN  /\ queue_id \in Ids(video_queue)
        /\ video_queue' =
              IF found
              THEN [video_queue EXCEPT ![queue_id].status = "deleted"]
              ELSE video_queue
        /\ out' = <<>>
        /\ UNCHANGED <<now, render, script_generation_jobs,
                       video_generation_jobs, mediaVars, accountVars,
                       scheduled_posts, threads, fb_calls>>

\* clear_queue (lines 3470-3485): DELETE FROM video_queue WHERE user_id = ?
\* AND status = 'queued'.
clear_queue(session) ==
    /\ video_queue' =
          [q \in Ids(video_queue) |->
              IF /\ video_queue[q].user_id = session
                 /\ video_queue[q].status = "queued"
              THEN [video_queue[q] EXCEPT !.status = "deleted"]
              ELSE video_queue[q]]
    /\ out' = <<>>
    /\ UNCHANGED <<now, render, script_generation_jobs,
                   video_generation_jobs, mediaVars, accountVars,
                   scheduled_posts, threads, fb_calls>>

\* The owners schedule and queue their videos, the two tasks tick, and the
\* owners cancel posts, remove entries and clear their queues.
NextCancel ==
    \/ NextPub
    \/ \E u \in Users : clear_queue(u)
    \/ \E u \in Users, p \in Ids(scheduled_posts) : cancel_scheduled_post(u, p)
    \/ \E u \in Users, q \in Ids(video_queue) : remove_from_queue(u, q)

SpecCancel == InitPub /\ [][NextCancel]_vars

\* C33: a scheduled post or queue entry is deleted only while it is pending
\* or queued; a row that is already posted or failed is left as it is by
\* every cancel and remove request.
C33_OnlyPendingDeleted ==
    [][/\ \A p \in Ids(scheduled_posts) :
             /\ scheduled_posts'[p].status = "deleted" =>
                   scheduled_posts[p].status \in {"pending", "deleted"}
             /\ scheduled_posts[p].status \in {"posted", "failed"} =>
                   scheduled_posts'[p] = scheduled_posts[p]
       /\ \A q \in Ids(video_queue) :
             /\ video_queue'[q].status = "deleted" =>
                   video_queue[q].status \in {"queued", "deleted"}
             /\ video_queue[q].status \in {"posted", "failed"} =>
                   video_queue'[q] = video_queue[q]
      ]_vars

\* C34: in a wrapped text without a backslash, no line of two or more
\* words is longer than 24 characters, and a word starts a new line,
\* first line or later, only when the line before it, one space and the
\* word together are longer than 24 characters.
C34_GreedyOnEveryLine ==
    (/\ render.returned
     /\ \A i \in DOMAIN render.text : render.text[i] # "\\") =>
        LET lines == OutputLines(render.wrapped)
        IN  /\ \A i \in DOMAIN lines :
                  Len(Split(lines[i])) >= 2 => Len(lines[i]) <= max_chars
            /\ \A i \in DOMAIN lines :
                  i > 1 => Len(lines[i - 1]) + 1 + Len(Split(lines[i])[1])
                               > max_chars

\* What a job's row says of its outcome.
Outcome(job) ==
    <<job.status, job.error_message, job.video_path, job.completed_at>>

\* C35: the step of a video worker that ends a successful render commits
\* the job as completed together with its Video row and sends no request
\* to Facebook; the worker's publish step, whatever comes of it, leaves the
\* status, the error message and the path of the job as they were and
\* keeps every Video row.
C35_PublishKeepsJob ==
    [][\A t \in 1..Len(threads) :
          LET j == threads[t].job
              before == video_generation_jobs[j]
              after == video_generation_jobs'[j]
          IN  /\ ( /\ threads[t].kind = "video"
                   /\ threads[t].pc # "publish"
                   /\ threads'[t].pc = "publish" ) =>
                     /\ after.status = "completed"
                     /\ \E v \in VideosOf(after, videos') :
                           videos'[v].file_path = after.video_path
                     /\ fb_calls' = fb_calls
              /\ ( /\ threads[t].kind = "video"
                   /\ threads[t].pc = "publish"
                   /\ threads'[t].pc # "publish" ) =>
                     /\ Outcome(after) = Outcome(before)
                     /\ \A v \in Ids(videos) :
                           /\ v \in Ids(videos')
                           /\ videos'[v].status = videos[v].status
      ]_vars

\* A video job's upload was refused and the job is completed, its Video
\* row in place.
C35_Witness ==
    \E i \in DOMAIN fb_calls :
        /\ fb_calls[i].by = "video_job"
        /\ fb_calls[i].id = NoId
        /\ LET job == video_generation_jobs[fb_calls[i].row]
           IN  /\ job.status = "completed"
               /\ \E v \in VideosOf(job, videos) :
                     videos[v].file_path = job.video_path

\* ------------------------------------ the sweep beside the requests
MaxSweeps == 2

Sweeps == {t \in 1..Len(threads) : threads[t].kind = "sweep"}

\* post_scheduled_videos up to the end of its SELECT (lines 119-135): the
\* due rows are in the list `scheduled`, and no transaction is open.  The
\* scheduler runs one instance of the task at a time.
SweepSelect ==
    /\ \A t \in Sweeps : threads[t].pc = "done"
    /\ \E order \in InTimeOrder(DuePosts) :
          threads' = Append(threads, [kind |-> "sweep", job |-> NoId,
                                      pc |-> "selected", todo |-> order])
    /\ UNCHANGED <<now, render, script_generation_jobs, video_generation_jobs,
                   mediaVars, accountVars, postVars, fb_calls, out>>

\* post_scheduled_videos from its loop on (lines 137-233): the rows that
\* were selected, one attempt each, and the commit.
SweepLoop(t, E, commits) ==
    /\ threads[t].kind = "sweep" /\ threads[t].pc = "selected"
    /\ \E env \in [{threads[t].todo[i] : i \in DOMAIN threads[t].todo} -> E],
          commit_ok \in commits :
          LET st == SweepRows([posts |-> scheduled_posts, videos |-> videos,
                               calls |-> fb_calls, lines |-> <<>>],
                              threads[t].todo, env)
          IN  /\ fb_calls' = st.calls
              /\ IF commit_ok
                 THEN /\ scheduled_posts' = st.posts
                      /\ videos' = st.videos
                      /\ out' = st.lines
                 ELSE /\ UNCHANGED <<scheduled_posts, videos>>
                      /\ out' = <<Line("scheduled", NoId, "SCHEDULER ERROR")>>
    /\ threads' = [threads EXCEPT ![t].pc = "done", ![t].todo = <<>>]
    /\ UNCHANGED <<now, render, script_generation_jobs, video_generation_jobs,
                   scripts, files, accountVars, video_queue>>

\* The sweep ticks while the owners cancel scheduled posts.
NextCancelSweep ==
    \/ AdvanceClock
    \/ Len(threads) < MaxSweeps /\ SweepSelect
    \/ \E t \in 1..Len(threads) : SweepLoop(t, SweepEnv, {TRUE})
    \/ \E u \in Users, p \in Ids(scheduled_posts) : cancel_scheduled_post(u, p)

SpecCancelSweep == InitSweep /\ [][NextCancelSweep]_vars

\* C36: no request to Facebook is sent for a scheduled post after it was
\* cancelled, whether or not a sweep had selected it before.
C36_CancelledNeverPublished ==
    [][\A p \in Ids(scheduled_posts) :
          scheduled_posts[p].status = "deleted" =>
              \A i \in (Len(fb_calls) + 1)..Len(fb_calls') :
                  ~(fb_calls'[i].by = "scheduled" /\ fb_calls'[i].row = p)
      ]_vars

\* ------------------------------------- post-now requests side by side
MaxRequests == 2

PostNowLine(video_id, msg) == <<Line("post_now", video_id, msg)>>

\* The catch-all of post_video_now (lines 3567-3574): UPDATE videos SET
\* status = "completed" WHERE id = ?, when the handler's statements go
\* through.
PostNowReset(table, video_id, handler_ok) ==
    IF handler_ok /\ video_id \in Live(table)
    THEN [table EXCEPT ![video_id].status = "completed"]
    ELSE table

\* post_video_now up to its first commit (lines 3487-3517): the SELECT, the
\* three checks, the look at facebook_video_id, the mark 'posting'.  A
\* request that passes goes on to the upload in its own thread of the
\* server.
PostNowBegin(session, video_id) ==
    LET found == /\ video_id \in Live(videos)
                 /\ videos[video_id].user_id = session
        video == videos[video_id]
        refuse(msg) == /\ out' = PostNowLine(video_id, msg)
                       /\ UNCHANGED <<videos, threads>>
    IN  /\ video_id \in Ids(videos)
        /\ \/ \E handler_ok \in BOOLEAN :
                 /\ videos' = PostNowReset(videos, video_id, handler_ok)
                 /\ out' = PostNowLine(video_id,
                                       "An unexpected error occurred")
                 /\ UNCHANGED threads
           \/ IF ~found THEN refuse("Video not found")
              ELSE IF ~FileExists(video.file_path)
              THEN refuse("Video file not found on disk")
              ELSE IF ~HasFacebook(video.user_id)
              THEN refuse("Facebook credentials not configured")
              ELSE IF video.facebook_video_id # NoId
              THEN refuse("Video already posted to Facebook")
              ELSE /\ videos' = [videos EXCEPT ![video_id].status = "posting"]
                   /\ threads' = Append(threads,
                          [kind |-> "post_now", job |-> video_id,
                           pc |-> "upload"])
                   /\ out' = <<>>
        /\ UNCHANGED <<now, render, script_generation_jobs,
                       video_generation_jobs, scripts, files, accountVars,
                       postVars, fb_calls>>

\* post_video_now from the upload on (lines 3519-3588): the upload, the
\* optional story, the row, the answer; or a statement raises and the
\* catch-all resets the status if it can.
PostNowFinish(t) ==
    /\ threads[t].kind = "post_now" /\ threads[t].pc = "upload"
    /\ \E env \in {e \in Env : e.exc # "before"} :
       \E handler_ok \in IF env.exc = "none" THEN {TRUE} ELSE BOOLEAN :
          LET video_id == threads[t].job
              video == videos[video_id]
              upload == UploadCall("post_now", video_id, video.file_path,
                                   env.upload, fb_calls)
              uploaded == Append(fb_calls, upload)
              share == api_keys[video.user_id].auto_share_to_story
          IN  /\ fb_calls' =
                    IF env.upload /\ share
                    THEN Append(uploaded,
                                StoryCall("post_now", video_id, env.story,
                                          uploaded))
                    ELSE uploaded
              /\ IF env.exc = "after"
                 THEN /\ videos' = PostNowReset(videos, video_id, handler_ok)
                      /\ out' = PostNowLine(video_id,
                                            "An unexpected error occurred")
                 ELSE IF ~env.upload
                 THEN /\ videos' = [videos EXCEPT
                                       ![video_id].status = "completed"]
                      /\ out' = PostNowLine(video_id, "Facebook upload failed")
                 ELSE /\ videos' = [videos EXCEPT
                                       ![video_id].facebook_video_id = upload.id,
                                       ![video_id].posted_at = now,
                                       ![video_id].status = "posted"]
                      /\ out' = PostNowLine(video_id,
                                    "Posted to Facebook successfully!")
    /\ threads' = SetPc(t, "done")
    /\ UNCHANGED <<now, render, script_generation_jobs, video_generation_jobs,
                   scripts, files, accountVars, postVars>>

\* The owners press 'post now', again before the answer has come or after.
NextPostNow ==
    \/ AdvanceClock
    \/ \E u \in Users, v \in Ids(videos) :
          Len(threads) < MaxRequests /\ PostNowBegin(u, v)
    \/ \E t \in 1..Len(threads) : PostNowFinish(t)

SpecPostNow == InitPub /\ [][NextPostNow]_vars

PostingNow(v) ==
    {t \in 1..Len(threads) : /\ threads[t].kind = "post_now"
                             /\ threads[t].job = v
                             /\ threads[t].pc = "upload"}

\* C37: at no time are two post-now requests for the same video past the
\* checks and before their answer, no video is uploaded by post-now twice
\* with success, and a video has status posting only while a request for
\* it is under way.
C37_OnePostNowAtATime ==
    \A v \in Ids(videos) :
        /\ Cardinality(PostingNow(v)) <= 1
        /\ Cardinality({i \in DOMAIN fb_calls :
                           /\ fb_calls[i].api = "videos"
                           /\ fb_calls[i].by = "post_now"
                           /\ fb_calls[i].row = v
                           /\ fb_calls[i].id # NoId}) <= 1
        /\ videos[v].status = "posting" => PostingNow(v) # {}

\* ------------------------------------ add-to-queue requests side by side
\* add_to_queue for a form that names one video, up to the end of its two
\* SELECTs (lines 3407-3430): the video is the session user's and has no
\* queued entry of that user, and the request goes on to its INSERT; or
\* nothing is added.
AddToQueueCheck(session, video_id) ==
    LET owned == /\ video_id \in Live(videos)
                 /\ videos[video_id].user_id = session
        existing == \E q \in Ids(video_queue) :
                       /\ video_queue[q].video_id = video_id
                       /\ video_queue[q].user_id = session
                       /\ video_queue[q].status = "queued"
    IN  /\ threads' = IF owned /\ ~existing
                      THEN Append(threads,
                               [kind |-> "add_to_queue", job |-> video_id,
                                session |-> session, pc |-> "insert"])
                      ELSE threads
        /\ out' = <<>>
        /\ UNCHANGED <<now, render, script_generation_jobs,
                       video_generation_jobs, mediaVars, accountVars,
                       postVars, fb_calls>>

\* add_to_queue from its INSERT to the commit (lines 3432-3440)
AddToQueueInsert(t) ==
    /\ threads[t].kind = "add_to_queue" /\ threads[t].pc = "insert"
    /\ video_queue' = Append(video_queue,
           [user_id |-> threads[t].session, video_id |-> threads[t].job,
            queued_at |-> now, status |-> "queued", posted_at |-> NoTime,
            facebook_video_id |-> NoId, story_id |-> NoId,
            error_message |-> "", retry_count |-> 0])
    /\ threads' = SetPc(t, "done")
    /\ out' = <<>>
    /\ UNCHANGED <<now, render, script_generation_jobs, video_generation_jobs,
                   mediaVars, accountVars, scheduled_posts, fb_calls>>

\* The owners add videos to the queue, remove entries and clear the queue
\* while the queue task ticks; a request may arrive before the one before
\* it was answered.
NextQueueRace ==
    \/ AdvanceClock
    \/ \E u \in Users, v \in Ids(videos) :
          Len(threads) < MaxRequests /\ AddToQueueCheck(u, v)
    \/ \E t \in 1..Len(threads) : AddToQueueInsert(t)
    \/ \E u \in Users : clear_queue(u)
    \/ \E u \in Users, q \in Ids(video_queue) : remove_from_queue(u, q)
    \/ Len(fb_calls) < MaxCalls /\ process_video_queue

SpecQueueRace == InitPub /\ [][NextQueueRace]_vars

\* C38: no owner has two queue entries with status queued for the same
\* video.
C38_NoDuplicateQueued ==
    \A q, r \in Ids(video_queue) :
        ( /\ q # r
          /\ video_queue[q].status = "queued"
          /\ video_queue[r].status = "queued"
          /\ video_queue[q].user_id = video_queue[r].user_id ) =>
            video_queue[q].video_id # video_queue[r].video_id

\* --------------------------------- the video dispatcher, run for ever
\* The place of a script that was deleted: no row answers to its id.
Gone == [user_id |-> NoId, selected |-> FALSE]

\* generate_video up to the end of its SELECT (lines 3080-3094): the
\* script is there and is the session user's, and the request goes on to
\* its INSERT.
GenerateVideoCheck(session, script_id) ==
    /\ threads' = IF scripts[script_id].user_id = session
                  THEN Append(threads,
                           [kind |-> "generate_video", job |-> script_id,
                            session |-> session, pc |-> "insert"])
                  ELSE threads
    /\ out' = <<>>
    /\ UNCHANGED <<now, render, script_generation_jobs, video_generation_jobs,
                   mediaVars, accountVars, postVars, fb_calls>>

\* generate_video from its INSERT to the commit (lines 3096-3114); the
\* database does not enforce the foreign key to scripts.
GenerateVideoInsert(t) ==
    /\ threads[t].kind = "generate_video" /\ threads[t].pc = "insert"
    /\ video_generation_jobs' = Append(video_generation_jobs,
           [user_id |-> threads[t].session, status |-> "pending",
            script_id |-> threads[t].job,
            created_at |-> now, started_at |-> NoTime,
            completed_at |-> NoTime, error_message |-> "",
            video_path |-> NoPath, facebook_video_id |-> NoId])
    /\ threads' = SetPc(t, "done")
    /\ out' = <<>>
    /\ UNCHANGED <<now, render, script_generation_jobs, mediaVars,
                   accountVars, postVars, fb_calls>>

\* clear_scripts (lines 3031-3054): the video jobs of the session user's
\* scripts are deleted, then the scripts, in one commit.
clear_scripts(session) ==
    /\ video_generation_jobs' =
          [j \in Ids(video_generation_jobs) |->
              IF scripts[video_generation_jobs[j].script_id].user_id = session
              THEN [video_generation_jobs[j] EXCEPT !.status = "deleted"]
              ELSE video_generation_jobs[j]]
    /\ scripts' = [i \in Ids(scripts) |->
                      IF scripts[i].user_id = session THEN Gone
                      ELSE scripts[i]]
    /\ out' = <<>>
    /\ UNCHANGED <<now, render, script_generation_jobs, videos, files,
                   accountVars, postVars, threads, fb_calls>>

\* The SELECT of process_video_generation_job (lines 764-773) finds the
\* job: its row is there, and the JOIN finds its script.
JobFound(j) ==
    /\ video_generation_jobs[j].status # "deleted"
    /\ scripts[video_generation_jobs[j].script_id] # Gone

\* process_video_generation_job up to the name of the output file (lines
\* 761-802), no statement raising: `if not job: return` leaves the table
\* as it is; a job that is found is marked processing.
VideoJobStart(t) ==
    /\ threads[t].kind = "video" /\ threads[t].pc = "start"
    /\ IF JobFound(threads[t].job)
       THEN VideoJobClaim(t) /\ threads'[t].pc = "render"
       ELSE /\ threads' = Return(t)
            /\ UNCHANGED <<now, render, script_generation_jobs,
                           video_generation_jobs, mediaVars, accountVars,
                           postVars, fb_calls, out>>

\* A thread whose function has returned is gone.
Finished == {"done", "raised"}
Running(th) == th.pc \notin Finished

Reap ==
    /\ \E t \in 1..Len(threads) : ~Running(threads[t])
    /\ threads' = SelectSeq(threads, Running)
    /\ UNCHANGED <<now, render, script_generation_jobs, video_generation_jobs,
                   mediaVars, accountVars, postVars, fb_calls, out>>

\* The rows of video_generation_jobs ever inserted in a run
MaxVideoJobs == 2

\* What a started thread still has to run, no statement raising.
StarveStep(t) ==
    /\ t \in DOMAIN threads
    /\ \/ GenerateVideoInsert(t)
       \/ VideoJobStart(t)
       \/ VideoJobRender(t) /\ threads'[t].pc # "raised"
       \/ VideoJobPublish(t)

\* Two owners with one script each ask for videos and clear their scripts
\* while the video dispatcher ticks and its workers run.
InitStarve ==
    /\ now = 1
    /\ render = NoRender
    /\ script_generation_jobs = <<>>
    /\ video_generation_jobs = <<>>
    /\ scripts = [u \in Users |-> [user_id |-> u, selected |-> TRUE]]
    /\ videos = <<>>
    /\ files = {}
    /\ users = [u \in Users |-> [videos_generated |-> 0]]
    /\ api_keys = [u \in Users |->
                      [facebook_page_token |-> FALSE,
                       facebook_page_id |-> FALSE,
                       auto_share_to_story |-> FALSE]]
    /\ scheduled_posts = <<>>
    /\ video_queue = <<>>
    /\ threads = <<>>
    /\ fb_calls = <<>>
    /\ out = <<>>

NextStarve ==
    \/ \E u \in Users, i \in Ids(scripts) :
          /\ Len(video_generation_jobs) + Len(threads) < MaxVideoJobs
          /\ GenerateVideoCheck(u, i)
    \/ \E u \in Users : clear_scripts(u)
    \/ process_video_generation_queue(MaxThreads)
    \/ \E t \in 1..Len(threads) : StarveStep(t)
    \/ Reap

\* The scheduler runs the dispatcher every 30 seconds for ever, and every
\* started thread runs on until it returns.
SpecStarve ==
    /\ InitStarve
    /\ [][NextStarve]_vars
    /\ WF_vars(process_video_generation_queue(MaxThreads))
    /\ \A t \in 1..MaxThreads : WF_vars(StarveStep(t))
    /\ WF_vars(Reap)

\* C39: every video job that is pending leaves the pending state, given
\* that the dispatcher ticks for ever and every started thread runs on.
C39_PendingLeaves ==
    \A j \in 1..MaxVideoJobs :
        StatusIn(video_generation_jobs, j, {"pending"})
            ~> ~StatusIn(video_generation_jobs, j, {"pending"})

TimestampsAgree(table) ==
    \A j \in Ids(table) :
        /\ table[j].started_at # NoTime <=> table[j].status # "pending"
        /\ table[j].completed_at # NoTime <=> table[j].status \in Terminal
        /\ table[j].status = "failed" => table[j].error_message # ""

\* C40: in every generation job row, started_at is set exactly when the
\* status is not pending, completed_at is set exactly when the status is
\* completed or failed, and a failed row has an error message.
C40_TimestampsAgreeWithStatus ==
    /\ TimestampsAgree(script_generation_jobs)
    /\ TimestampsAgree(video_generation_jobs)


=============================================================================
